---- MODULE Spec2Model ----
(***************************************************************************)
(* A model of SSOsoft's rosaZylaCal calibration class and its kisipWrapper *)
(* orchestrator (src/ssosoft/rosaZylaCal.py, src/ssosoft/kisipWrapper.py). *)
(*                                                                         *)
(* Spec      the burst batcher and the job orchestrator on small inputs    *)
(* SpecLong  the burst batcher over more than 1000 bursts                  *)
(* SpecTime  the same, with more than one frame to the burst               *)
(* SpecCube  the burst batcher with the reference frames in memory         *)
(* SpecDisk  the orchestrator over a directory that other programs change  *)
(* SpecStale the script over the bursts of an earlier run                  *)
(* SpecGeom  geometry detection on synthetic raw buffers                   *)
(* SpecFrame geometry detection on any sample frame                        *)
(* SpecOrder ordering of the file lists                                    *)
(* SpecCal   reference frames: averaging, gain, caching                    *)
(* SpecPath  the same, under an absolute and a relative workBase           *)
(***************************************************************************)
EXTENDS Integers, Sequences, FiniteSets, TLC

(***************************************************************************)
(* Bounds of the model.                                                    *)
(***************************************************************************)
MaxBurst == 3        \* burstNumber ranges over 1..MaxBurst
MaxFrames == 5       \* raw-buffer family: data files 0..MaxFrames
MaxRosaFiles == 2    \* structured-header family: data files 1..MaxRosaFiles
MaxExt == 3          \* structured-header family: sub-frames per file 0..MaxExt
MaxCalls == 2        \* invocations of calibration methods on one instance
MaxDespeckles == 1   \* invocations of kisip_despeckle_all_batches
MaxLongExtra == 1    \* SpecLong: bursts beyond the first full batch

(***************************************************************************)
(* Program constants.                                                      *)
(***************************************************************************)
\* The exit codes of the external process the model draws from.
ExitCodes == {0, 1}

BatchSize == 1000    \* burst//1000, burst%1000
HeaderWrapAt == 257  \* if header_index >= 257
HeaderWrapBy == 256  \* header_index = header_index - 256

(***************************************************************************)
(* Strings are sequences of one-character strings, except that a part no   *)
(* slice ever cuts is kept as one token.                                   *)
(***************************************************************************)
DigitChars == <<"0", "1", "2", "3", "4", "5", "6", "7", "8", "9">>

RECURSIVE DecDigits(_)
DecDigits(n) ==
    IF n < 10 THEN <<DigitChars[n + 1]>>
    ELSE Append(DecDigits(n \div 10), DigitChars[(n % 10) + 1])

RECURSIVE ZeroPad(_, _)
ZeroPad(s, w) == IF Len(s) >= w THEN s ELSE ZeroPad(<<"0">> \o s, w)

\* "{:0wd}".format(n): the sign counts towards the width.
FormatD(n, w) ==
    IF n < 0 THEN <<"-">> \o ZeroPad(DecDigits(-n), w - 1)
    ELSE ZeroPad(DecDigits(n), w)

\* s[:-k]
DropLast(s, k) == IF Len(s) <= k THEN <<>> ELSE SubSeq(s, 1, Len(s) - k)

IsPrefix(p, s) == Len(p) <= Len(s) /\ SubSeq(s, 1, Len(p)) = p

\* burstFileForm.format(obsDate, obsTime, thsnds, hndrds): the configured form
\* ends in a two-digit batch field, a dot and a three-digit burst field.
burstFileForm(thsnds, hndrds) ==
    <<"obsDate_obsTime.raw.batch.">> \o FormatD(thsnds, 2) \o <<".">> \o FormatD(hndrds, 3)

speckledFileForm(thsnds, hndrds) ==
    <<"obsDate_obsTime.speckle.batch.">> \o FormatD(thsnds, 2) \o <<".">> \o FormatD(hndrds, 3)

\* burstFile+'.txt'
SidecarName(burstFile) == burstFile \o <<".", "t", "x", "t">>

\* int(s) of a string of decimal digits
CharVal(c) == (CHOOSE d \in 1..10 : DigitChars[d] = c) - 1

RECURSIVE ParseDec(_)
ParseDec(s) ==
    IF Len(s) = 0 THEN 0
    ELSE 10 * ParseDec(SubSeq(s, 1, Len(s) - 1)) + CharVal(s[Len(s)])

\* name.split('raw.batch.')[1].split('.'): the batch and the burst field of a name
NameFields(name) ==
    LET rest == Tail(name)
        dot == CHOOSE k \in 1..Len(rest) :
                   rest[k] = "." /\ \A j \in 1..(k - 1) : rest[j] # "."
        after == SubSeq(rest, dot + 1, Len(rest))
        stop == IF \E k \in 1..Len(after) : after[k] = "."
                THEN (CHOOSE k \in 1..Len(after) :
                          after[k] = "." /\ \A j \in 1..(k - 1) : after[j] # ".") - 1
                ELSE Len(after)
    IN <<SubSeq(rest, 1, dot - 1), SubSeq(after, 1, stop)>>

BatchField(name) == ParseDec(NameFields(name)[1])

BurstField(name) == ParseDec(NameFields(name)[2])


(***************************************************************************)
(* Arithmetic: pixel values are fractions of integers.                     *)
(***************************************************************************)
Abs(x) == IF x < 0 THEN -x ELSE x

RECURSIVE Gcd(_, _)
Gcd(a, b) == IF b = 0 THEN a ELSE Gcd(b, a % b)

Sign(x) == IF x > 0 THEN 1 ELSE IF x < 0 THEN -1 ELSE 0

\* The value n/d, for any integers n and d.
Frac(n, d) ==
    IF d = 0 THEN [num |-> Sign(n), den |-> 0]
    ELSE LET g == Gcd(Abs(n), Abs(d))
         IN [num |-> (Sign(d) * n) \div g, den |-> Abs(d) \div g]

IsNan(a) == a.den = 0 /\ a.num = 0

\* a-b; the reference frames hold no infinity.
FracSub(a, b) ==
    IF a.den = 0 \/ b.den = 0 THEN Frac(0, 0)
    ELSE Frac(a.num * b.den - b.num * a.den, a.den * b.den)

\* a*b of finite values
FracMul(a, b) == Frac(a.num * b.num, a.den * b.den)

(***************************************************************************)
(* State.                                                                  *)
(***************************************************************************)
VARIABLES
    \* the configuration file and the data directory (inputs)
    configFile,      \* [burstNumber, expTimems]
    isdir,           \* [dark, data, flat]: os.path.isdir of the base directory
    dataFiles,       \* dataFiles[k]: sub-frames held by the k-th data file
    \* the rosaZylaCal instance
    instrument,
    burstNumber,
    dataList,
    batchList,
    \* the preSpeckle directory: file name -> content
    preSpeckle,
    \* geometry
    imageData,       \* the sample frame handed to detection: its samples in file order
    built,           \* history: the shapes the sample frame was laid out from
    dataShape,       \* <<rows, cols>>, <<>> before detection
    imageShape,
    \* reference frames
    darkList,
    flatList,
    listed,          \* history: [dark, flat, data], the lists before they were ordered
    darkBase,        \* the dark files on disk: a raw buffer each, or the records of
    flatBase,        \* a structured file (the primary record first)
    fitsFiles,       \* the FITS images on disk: path -> image
    avgDark,
    avgFlat,
    gain,
    calLog,          \* the calibration log, its messages about the gain table
    \* control
    pc,              \* "idle" between calls, "kisip_loop", "raised"
    err,             \* the exception that ended the run, "" if none
    calls,           \* history: the calibration methods invoked on the instance
    \* history: the burst cubes in the order they were written, each with the
    \* invocation (index into calls) that wrote it
    cubeLog,
    \* the kisipWrapper instance
    wrapper,                   \* TRUE once kisipWrapper(r) has been constructed
    kisipPreSpeckleBatch,
    kisipPreSpeckleStartInd,
    kisipPreSpeckleEndInd,
    \* kisip_despeckle_all_batches: its position
    kpos,            \* index into batchList of the batch being processed
    kstep,           \* index into BatchSteps of the next call of the loop body
    despeckles,      \* invocations of kisip_despeckle_all_batches so far
    \* the work directory (descriptor files), the environment, the external process
    workBase,        \* file name -> lines
    environ,         \* [PATH, LD_LIBRARY_PATH], each a sequence of directories
    proc,            \* "none", "running", "exited"
    returnCode,
    kLog,            \* the orchestrator's log: <<level, message, value>>
    \* history: what has happened for the batch being processed
    kTrace,
    \* history: what the current invocation of kisip_despeckle_all_batches has done,
    \* each event with the index into batchList of the batch it was done for
    kHist

geomVars == <<imageData, built, dataShape, imageShape>>

refVars == <<darkList, flatList, listed, darkBase, flatBase, fitsFiles, avgDark, avgFlat,
             gain, calLog>>

calVars == <<configFile, isdir, dataFiles, instrument, burstNumber, dataList, batchList,
             preSpeckle, calls, cubeLog, geomVars, refVars>>

kisipVars == <<wrapper, kisipPreSpeckleBatch, kisipPreSpeckleStartInd,
               kisipPreSpeckleEndInd, kpos, kstep, despeckles, workBase, environ, proc,
               returnCode, kLog, kTrace, kHist>>

vars == <<calVars, kisipVars, pc, err>>

IsZyla == instrument = "ZYLA"          \* 'ZYLA' in self.instrument
IsRosa == instrument = "ROSA_GBAND"    \* 'ROSA' in self.instrument

\* The instance has been configured by rosa_zyla_configure_run.
Configured == burstNumber # 0

\* The three base directories, all of them there.
AllDirs == [role \in {"dark", "data", "flat"} |-> TRUE]

\* Mutation: the burst cubes are saved before the reference frames are there.
RunStepsBurstsFirst ==
    <<"rosa_zyla_configure_run", "rosa_zyla_get_file_lists", "rosa_zyla_order_files",
      "rosa_zyla_get_data_image_shapes", "rosa_zyla_save_bursts",
      "rosa_zyla_get_cal_images", "rosa_zyla_save_cal_images">>

\* The calls of rosa_zyla_run_calibration(saveBursts=True), in their order.
RunSteps ==
    <<"rosa_zyla_configure_run", "rosa_zyla_get_file_lists", "rosa_zyla_order_files",
      "rosa_zyla_get_data_image_shapes", "rosa_zyla_get_cal_images",
      "rosa_zyla_save_cal_images", "rosa_zyla_save_bursts">>

\* A method of the instance is called: by the script, between two of its
\* statements, or by rosa_zyla_run_calibration, which is at that call.
AtCall(name) ==
    \/ pc = "idle" /\ Len(calls) < MaxCalls
    \/ pc = name

\* Where control is when the method returns: back in the script, or at the next
\* call of rosa_zyla_run_calibration, which returns to the script after its last.
Return(name) ==
    IF pc = "idle" THEN "idle"
    ELSE LET k == CHOOSE i \in 1..Len(RunSteps) : RunSteps[i] = name
         IN IF k = Len(RunSteps) THEN "idle" ELSE RunSteps[k + 1]

\* open(name, 'w'); write(content); close()
WriteFile(dir, name, content) ==
    (name :> content) @@ dir

(***************************************************************************)
(* rosaZylaCal.                                                            *)
(***************************************************************************)
\* np.zeros(burstShape): an unfilled slot holds the frame <<0, 0>>.
ZeroCube(n) == [k \in 1..n |-> <<0, 0>>]

\* The number of a data file: the file is known by it where the lists were not
\* globbed, and else it is the run counter in the name of the file.
FileNumber(file) ==
    IF listed = <<>> THEN file ELSE ParseDec(SubSeq(file, 3, Len(file) - 1))

\* The pixels of a data (sub-)frame <<file, sub-frame>>: no two frames alike, and
\* none equal to the dark.
DataImage(data, n) ==
    [p \in 1..n |-> Frac(110 + 16 * FileNumber(data[1]) + 4 * data[2] + p, 1)]

\* Mutation: the dark is subtracted from the product.
rosa_zyla_flatfield_correction_late(data) ==
    IF gain = <<>> THEN data
    ELSE LET image == DataImage(data, Len(gain))
         IN [p \in 1..Len(gain) |-> FracSub(FracMul(gain[p], image[p]), avgDark[p])]

\* corrected=self.gain*(data-self.avgDark), pixel by pixel; where the reference
\* frames are left out of the model the result is kept symbolic: the frame it
\* was computed from.
rosa_zyla_flatfield_correction(data) ==
    IF gain = <<>> THEN data
    ELSE LET image == DataImage(data, Len(gain))
         IN [p \in 1..Len(gain) |-> FracMul(gain[p], FracSub(image[p], avgDark[p]))]

\* The elapsed part of zyla_time(file_number), in milliseconds.
zyla_time(expTimems, burstNum, file_number) == expTimems * burstNum * file_number

\* Mutation: the batch id is taken from the count of bursts, not from the index.
burstThsndsOfCount(burst) == (burst + 1) \div BatchSize

\* burstThsnds=burst//1000, burstHndrds=burst%1000
burstThsndsOf(burst) == burst \div BatchSize

burstHndrdsOf(burst) == burst % BatchSize

\* Mutation: the time is taken from the index of the burst within its batch.
SidecarFileNumberInBatch(burstThsnds, burstHndrds) == burstHndrds

\* The file_number handed to zyla_time: 1000*burstThsnds+burstHndrds
SidecarFileNumber(burstThsnds, burstHndrds) == BatchSize * burstThsnds + burstHndrds

\* burst/lastBurst in rosa_zyla_print_progress_save_bursts
ProgressRaises(lastBurst) == lastBurst = 0

\* if burstThsnds != batch: batch=burstThsnds; batchList.append(batch)
AppendBatch(list, batch, burstThsnds) ==
    IF burstThsnds # batch THEN Append(list, burstThsnds) ELSE list

\* The first file of list at or after f that holds a sub-frame (for hduExt in
\* hdu[1:]).
RECURSIVE SkipEmpty(_, _)
SkipEmpty(list, f) ==
    IF f > Len(list) THEN f
    ELSE IF dataFiles[list[f]] = 0 THEN SkipEmpty(list, f + 1)
    ELSE f

\* rosa_zyla_save_bursts as it enters its loop: its locals, the attributes it reads
\* (burstNumber, dataList, expTimems) and what it writes (batchList, the preSpeckle
\* directory); run is the invocation, err the exception raised so far.
SaveBurstsEntry(zyla, B, list, expTimems, batches, dir, log, run) ==
    [burstCube |-> ZeroCube(B), burst |-> 0, batch |-> -1, i |-> 0, header_index |-> 0,
     lastBurst |-> IF zyla THEN Len(list) \div B ELSE -1,
     file |-> IF zyla THEN 1 ELSE SkipEmpty(list, 1),
     ext |-> 1,
     burstNumber |-> B, dataList |-> list, expTimems |-> expTimems,
     batchList |-> batches, preSpeckle |-> dir, cubeLog |-> log, run |-> run,
     err |-> ""]

\* One pass of `for file in self.dataList[:lastFile]`.
ZylaPass(st) ==
    LET data == <<st.dataList[st.file], 1>>
        cube == [st.burstCube EXCEPT ![st.i + 1] = rosa_zyla_flatfield_correction(data)]
        i1 == st.i + 1
        burstThsnds == burstThsndsOf(st.burst)
        burstHndrds == burstHndrdsOf(st.burst)
        burstFile == burstFileForm(burstThsnds, burstHndrds)
        text == [kind |-> "txt",
                 data |-> <<zyla_time(st.expTimems, st.burstNumber,
                                      SidecarFileNumber(burstThsnds, burstHndrds))>>]
        saved == [st EXCEPT
                    !.preSpeckle = WriteFile(WriteFile(@, SidecarName(burstFile), text),
                                             burstFile, [kind |-> "cube", data |-> cube]),
                    !.cubeLog = Append(@, [run |-> st.run, name |-> burstFile]),
                    !.burstCube = cube, !.i = 0, !.burst = @ + 1]
    IN IF st.err # "" THEN st
       ELSE IF i1 # st.burstNumber
       THEN [st EXCEPT !.burstCube = cube, !.i = i1, !.file = @ + 1]
       ELSE IF ProgressRaises(st.lastBurst)
       THEN [saved EXCEPT !.err = "ZeroDivisionError"]
       ELSE [saved EXCEPT !.batchList = AppendBatch(@, st.batch, burstThsnds),
                          !.batch = burstThsnds,
                          !.burstCube = ZeroCube(st.burstNumber),
                          !.file = @ + 1]

\* One pass of `for hduExt in hdu[1:]` within `for file in self.dataList`.
RosaPass(st) ==
    LET nExt == dataFiles[st.dataList[st.file]]
        lastBurst == IF st.burst = 0 /\ st.i = 0
                     THEN (Len(st.dataList) * nExt) \div st.burstNumber
                     ELSE st.lastBurst
        data == <<st.dataList[st.file], st.ext>>
        cube == [st.burstCube EXCEPT ![st.i + 1] = rosa_zyla_flatfield_correction(data)]
        i1 == st.i + 1
        hi1 == st.header_index + 1
        nextFile == IF st.ext < nExt THEN st.file ELSE SkipEmpty(st.dataList, st.file + 1)
        nextExt == IF st.ext < nExt THEN st.ext + 1 ELSE 1
        burstThsnds == burstThsndsOf(st.burst)
        burstHndrds == burstHndrdsOf(st.burst)
        burstFile == burstFileForm(burstThsnds, burstHndrds)
        hi2 == IF hi1 >= HeaderWrapAt THEN hi1 - HeaderWrapBy ELSE hi1
        text == [kind |-> "txt", data |-> <<st.dataList[st.file], hi2>>]
        filled == [st EXCEPT !.burstCube = cube, !.lastBurst = lastBurst,
                             !.header_index = hi2]
        saved == [filled EXCEPT
                    !.preSpeckle = WriteFile(WriteFile(@, SidecarName(burstFile), text),
                                             burstFile, [kind |-> "cube", data |-> cube]),
                    !.cubeLog = Append(@, [run |-> st.run, name |-> burstFile]),
                    !.i = 0, !.burst = @ + 1]
    IN IF st.err # "" \/ st.file > Len(st.dataList) THEN st
       ELSE IF i1 # st.burstNumber
       THEN [st EXCEPT !.burstCube = cube, !.i = i1, !.header_index = hi1,
                       !.lastBurst = lastBurst, !.file = nextFile, !.ext = nextExt]
       ELSE IF hi2 > nExt
       THEN \* open(burstFile+'.txt', "w"), then hdu[header_index]: index out of range
            [filled EXCEPT !.preSpeckle = WriteFile(@, SidecarName(burstFile),
                                                    [kind |-> "txt", data |-> <<>>]),
                           !.i = i1, !.err = "IndexError"]
       ELSE IF ProgressRaises(lastBurst)
       THEN [saved EXCEPT !.err = "ZeroDivisionError"]
       ELSE [saved EXCEPT !.batchList = AppendBatch(@, st.batch, burstThsnds),
                          !.batch = burstThsnds,
                          !.burstCube = ZeroCube(st.burstNumber),
                          !.file = nextFile, !.ext = nextExt]

\* n passes of a loop from st: the first half of them, then the rest from where
\* that half ends (the halves keep the evaluation shallow).
RECURSIVE ZylaPasses(_, _)
ZylaPasses(n, st) ==
    IF n = 0 THEN st
    ELSE IF n = 1 THEN ZylaPass(st)
    ELSE CHOOSE exit \in {ZylaPasses(n - (n \div 2), half) :
                          half \in {ZylaPasses(n \div 2, st)}} : TRUE

RECURSIVE RosaPasses(_, _)
RosaPasses(n, st) ==
    IF n = 0 THEN st
    ELSE IF n = 1 THEN RosaPass(st)
    ELSE CHOOSE exit \in {RosaPasses(n - (n \div 2), half) :
                          half \in {RosaPasses(n \div 2, st)}} : TRUE

\* The sub-frames held by the files of a list.
RECURSIVE SubFrames(_, _)
SubFrames(list, f) ==
    IF f > Len(list) THEN 0 ELSE dataFiles[list[f]] + SubFrames(list, f + 1)

\* rosa_zyla_save_bursts, from its entry to its return or to the exception it raises.
SaveBursts(entry, zyla) ==
    IF zyla
    THEN ZylaPasses(entry.lastBurst * entry.burstNumber, entry)
    ELSE RosaPasses(SubFrames(entry.dataList, 1), entry)

\* What rosa_zyla_save_bursts leaves behind.
SaveBurstsEffect(B, list, run) ==
    LET exit == SaveBursts(SaveBurstsEntry(IsZyla, B, list, configFile.expTimems,
                                           batchList, preSpeckle, cubeLog, run), IsZyla)
    IN /\ batchList' = exit.batchList
       /\ preSpeckle' = exit.preSpeckle
       /\ cubeLog' = exit.cubeLog
       /\ err' = exit.err
       /\ pc' = IF exit.err = "" THEN Return("rosa_zyla_save_bursts") ELSE "raised"

\* Mutation: the bursts are saved whatever saveBursts is.
rosa_zyla_run_calibration_saving(saveBursts) ==
    /\ pc = "idle"
    /\ Len(calls) < MaxCalls
    /\ calls' = Append(calls, IF saveBursts THEN "rosa_zyla_run_calibration"
                                ELSE "rosa_zyla_run_calibration(saveBursts=False)")
    /\ burstNumber' = configFile.burstNumber
    /\ dataList' = [k \in 1..Len(dataFiles) |-> k]
    /\ SaveBurstsEffect(burstNumber', dataList', Len(calls'))
    /\ UNCHANGED <<configFile, isdir, dataFiles, instrument>>
    /\ UNCHANGED <<geomVars, refVars, kisipVars>>

\* r.rosa_zyla_run_calibration(saveBursts)
rosa_zyla_run_calibration(saveBursts) ==
    /\ pc = "idle"
    /\ Len(calls) < MaxCalls
    /\ calls' = Append(calls, IF saveBursts THEN "rosa_zyla_run_calibration"
                                ELSE "rosa_zyla_run_calibration(saveBursts=False)")
    /\ burstNumber' = configFile.burstNumber
    /\ dataList' = [k \in 1..Len(dataFiles) |-> k]
    /\ IF saveBursts
       THEN SaveBurstsEffect(burstNumber', dataList', Len(calls'))
       ELSE UNCHANGED <<batchList, preSpeckle, cubeLog, err, pc>>
    /\ UNCHANGED <<configFile, isdir, dataFiles, instrument>>
    /\ UNCHANGED <<geomVars, refVars, kisipVars>>

\* r.rosa_zyla_save_bursts() on an instance that has been calibrated.
rosa_zyla_save_bursts ==
    /\ AtCall("rosa_zyla_save_bursts")
    /\ Configured
    /\ calls' = Append(calls, "rosa_zyla_save_bursts")
    /\ SaveBurstsEffect(burstNumber, dataList, Len(calls'))
    /\ UNCHANGED <<configFile, isdir, dataFiles, instrument, burstNumber, dataList>>
    /\ UNCHANGED <<geomVars, refVars, kisipVars>>

(***************************************************************************)
(* kisipWrapper.                                                           *)
(***************************************************************************)
\* Mutation: the process is spawned before the descriptors are written.
BatchStepsSpawnFirst == <<"kisip_set_batch_start_end_inds", "kisip_set_environment",
                          "kisip_spawn_kisip", "kisip_write_init_files">>

\* The body of `for batch in self.batchList`, in the order of its calls.
BatchSteps == <<"kisip_set_batch_start_end_inds", "kisip_set_environment",
                "kisip_write_init_files", "kisip_spawn_kisip">>

\* The glob pattern of a batch: burstFileForm.format(..., batch, 0)[:-3] + '*'
BatchPattern(batch) == DropLast(burstFileForm(batch, 0), 3)

\* glob.glob(pattern): '*' matches any rest of the name.
Glob(dir, pattern) == {n \in DOMAIN dir : IsPrefix(pattern, n)}

\* The lines of init_file.dat
InitFileLines(batch, startInd, endInd) ==
    << <<"preSpeckleBase/">> \o DropLast(burstFileForm(batch, 0), 4),
       FormatD(startInd, 3),
       FormatD(endInd, 3),
       <<"speckleBase/">> \o DropLast(speckledFileForm(batch, 0), 4),
       <<"preSpeckleBase/", "noiseFile">> >>

\* Mutation: the eight fields of the method descriptor as they are listed in prose.
InitMethodLinesAsListed ==
    <<"kisipMethodMethod", "kisipMethodSubfieldArcsec", "kisipMethodPhaseRecLimit",
      "kisipMethodPhaseRecApod", "kisipMethodMaxIter", "kisipMethodSNThresh",
      "kisipMethodWeightExp", "kisipMethodNoiseFilter">>

\* The lines of init_method.dat, each named by the attribute written
InitMethodLines ==
    <<"kisipMethodMethod", "kisipMethodSubfieldArcsec", "kisipMethodPhaseRecLimit",
      "kisipMethodUX", "kisipMethodUV", "kisipMethodMaxIter", "kisipMethodSNThresh",
      "kisipMethodWeightExp", "kisipMethodPhaseRecApod", "kisipMethodNoiseFilter">>

\* The lines of init_props.dat, each named by the attribute written
InitPropsLines ==
    <<"imageShape[1]", "imageShape[0]", "burstNumber", "kisipPropsHeaderOff",
      "kisipArcsecPerPixX", "kisipArcsecPerPixY", "kisipPropsTelescopeDiamm",
      "wavelengthnm", "kisipPropsAoLockX", "kisipPropsAoLockY", "kisipPropsAoUsed">>

\* The descriptor files in the order kisip_write_init_files writes them.
InitFileNames == <<"init_file.dat", "init_method.dat", "init_props.dat">>

\* The loop body's next call, and the next batch after its last call.
Advance ==
    IF kstep < Len(BatchSteps)
    THEN kstep' = kstep + 1 /\ UNCHANGED kpos
    ELSE kstep' = 1 /\ kpos' = kpos + 1

\* Mutation: the loop body goes on while the process it spawned is running.
AtStepNoWait(name) ==
    /\ pc = "kisip_loop"
    /\ kpos <= Len(batchList)
    /\ BatchSteps[kstep] = name

\* A call of the loop body is the next thing the interpreter does: the loop is at
\* that call, and kisip_spawn_kisip has returned from process.wait().
AtStep(name) ==
    /\ pc = "kisip_loop"
    /\ kpos <= Len(batchList)
    /\ proc # "running"
    /\ BatchSteps[kstep] = name

\* The history of the batch being processed starts anew with the loop body.
Traced(events) ==
    /\ kTrace' = (IF kstep = 1 THEN <<>> ELSE kTrace) \o events
    /\ kHist' = kHist \o [k \in 1..Len(events) |-> <<kpos, events[k]>>]

\* k=ssosoft.kisipWrapper(r)
NewKisipWrapper ==
    /\ pc = "idle"
    /\ Configured
    /\ ~wrapper
    /\ wrapper' = TRUE
    /\ kisipPreSpeckleBatch' = 0
    /\ kisipPreSpeckleStartInd' = 0
    /\ kisipPreSpeckleEndInd' = 0
    /\ UNCHANGED <<calVars, pc, err, kpos, kstep, despeckles, workBase, environ, proc,
                   returnCode, kLog, kTrace, kHist>>

\* kisip_despeckle_all_batches up to its loop.
DespeckleAllBatches ==
    /\ pc = "idle"
    /\ wrapper
    /\ despeckles < MaxDespeckles
    /\ despeckles' = despeckles + 1
    /\ pc' = "kisip_loop"
    /\ kpos' = 1
    /\ kstep' = 1
    /\ kTrace' = <<>>
    /\ kHist' = <<>>
    /\ UNCHANGED <<calVars, err, wrapper, kisipPreSpeckleBatch, kisipPreSpeckleStartInd,
                   kisipPreSpeckleEndInd, workBase, environ, proc, returnCode, kLog>>

\* Mutation: the end index of a batch without files is that of a batch of one.
EndIndAtLeastZero(nFile) == IF nFile = 0 THEN 0 ELSE nFile - 1

\* self.kisipPreSpeckleEndInd=nFile-1
EndInd(nFile) == nFile - 1

kisip_set_batch_start_end_inds ==
    /\ AtStep("kisip_set_batch_start_end_inds")
    /\ LET batch == batchList[kpos]
           nFile == Cardinality(Glob(preSpeckle, BatchPattern(batch)))
       IN /\ kisipPreSpeckleBatch' = batch
          /\ kisipPreSpeckleStartInd' = 0
          /\ kisipPreSpeckleEndInd' = EndInd(nFile)
          /\ kLog' = Append(kLog, IF nFile = 0 THEN <<"error", "batch has files", nFile>>
                                  ELSE <<"info", "batch has files", nFile>>)
    /\ Traced(<<"indices">>)
    /\ Advance
    /\ UNCHANGED <<calVars, pc, err, wrapper, despeckles, workBase, environ, proc,
                   returnCode>>

kisip_set_environment ==
    /\ AtStep("kisip_set_environment")
    /\ LET path == <<"kisipEnvBin">> \o environ.PATH
       IN environ' = [PATH |-> path,
                      \* os.environ['PATH'] is read again, after it was assigned
                      LD_LIBRARY_PATH |-> <<"kisipEnvLib">> \o path]
    /\ Traced(<<"environment">>)
    /\ Advance
    /\ UNCHANGED <<calVars, pc, err, wrapper, kisipPreSpeckleBatch,
                   kisipPreSpeckleStartInd, kisipPreSpeckleEndInd, despeckles, workBase,
                   proc, returnCode, kLog>>

\* Mutation: a descriptor file that is there already is left as it is.
RECURSIVE WithInitFilesKept(_, _)
WithInitFilesKept(dir, n) ==
    IF n = 0 THEN dir
    ELSE IF InitFileNames[n] \in DOMAIN dir THEN WithInitFilesKept(dir, n - 1)
    ELSE WriteFile(WithInitFilesKept(dir, n - 1), InitFileNames[n],
                   CASE n = 1 -> InitFileLines(kisipPreSpeckleBatch,
                                               kisipPreSpeckleStartInd,
                                               kisipPreSpeckleEndInd)
                     [] n = 2 -> InitMethodLines
                     [] n = 3 -> InitPropsLines)

\* The work directory after the first n descriptor files have been written.
RECURSIVE WithInitFiles(_, _)
WithInitFiles(dir, n) ==
    IF n = 0 THEN dir
    ELSE WriteFile(WithInitFiles(dir, n - 1), InitFileNames[n],
                   CASE n = 1 -> InitFileLines(kisipPreSpeckleBatch,
                                               kisipPreSpeckleStartInd,
                                               kisipPreSpeckleEndInd)
                     [] n = 2 -> InitMethodLines
                     [] n = 3 -> InitPropsLines)

\* Each of the three writes may fail; a failure is logged and raised.
kisip_write_init_files ==
    /\ AtStep("kisip_write_init_files")
    /\ \E written \in 0..Len(InitFileNames) :
          /\ workBase' = WithInitFiles(workBase, written)
          /\ Traced(SubSeq(InitFileNames, 1, written))
          /\ IF written = Len(InitFileNames)
             THEN Advance /\ UNCHANGED <<pc, err, kLog>>
             ELSE /\ pc' = "raised"
                  /\ err' = "OSError"
                  /\ kLog' = Append(kLog, <<"critical", "CRITICAL", written>>)
                  /\ UNCHANGED <<kpos, kstep>>
    /\ UNCHANGED <<calVars, wrapper, kisipPreSpeckleBatch, kisipPreSpeckleStartInd,
                   kisipPreSpeckleEndInd, despeckles, environ, proc, returnCode>>

\* What os.chdir and subprocess.Popen raise when the process cannot be started.
SpawnError == "OSError"

\* kisip_spawn_kisip up to the process running, or to its failure to start: the
\* except clause formats returnCode, which has not been assigned.
kisip_spawn_kisip ==
    /\ AtStep("kisip_spawn_kisip")
    /\ \E started \in BOOLEAN :
          IF started
          THEN /\ proc' = "running"
               /\ Traced(<<"spawn">>)
               /\ UNCHANGED <<pc, err, kLog>>
          ELSE /\ proc' = "none"
               /\ Traced(<<"spawn", "spawn failed">>)
               /\ pc' = "raised"
               /\ err' = "UnboundLocalError"
               /\ kLog' = Append(kLog, <<"critical", "KISIP run failed", SpawnError>>)
    /\ UNCHANGED <<calVars, wrapper, kisipPreSpeckleBatch, kisipPreSpeckleStartInd,
                   kisipPreSpeckleEndInd, kpos, kstep, despeckles, workBase, environ,
                   returnCode>>

\* Mutation: a non-zero exit code is raised as an error.
KisipExitChecked ==
    /\ pc = "kisip_loop"
    /\ proc = "running"
    /\ \E code \in ExitCodes :
          /\ returnCode' = code
          /\ kLog' = Append(kLog, <<"info", "exited with code", code>>)
          /\ kTrace' = Append(kTrace, IF code = 0 THEN "exit zero" ELSE "exit nonzero")
          /\ kHist' = Append(kHist, <<kpos, IF code = 0 THEN "exit zero"
                                           ELSE "exit nonzero">>)
          /\ IF code = 0 THEN Advance /\ UNCHANGED <<pc, err>>
             ELSE pc' = "raised" /\ err' = "CalledProcessError" /\ UNCHANGED <<kpos, kstep>>
    /\ proc' = "exited"
    /\ UNCHANGED <<calVars, wrapper, kisipPreSpeckleBatch,
                   kisipPreSpeckleStartInd, kisipPreSpeckleEndInd, despeckles, workBase,
                   environ>>

\* returnCode=process.wait(), and the rest of kisip_spawn_kisip.
KisipExit ==
    /\ pc = "kisip_loop"
    /\ proc = "running"
    /\ \E code \in ExitCodes :
          /\ returnCode' = code
          /\ kLog' = Append(kLog, <<"info", "exited with code", code>>)
          /\ kTrace' = Append(kTrace, IF code = 0 THEN "exit zero" ELSE "exit nonzero")
          /\ kHist' = Append(kHist, <<kpos, IF code = 0 THEN "exit zero"
                                           ELSE "exit nonzero">>)
    /\ proc' = "exited"
    /\ Advance
    /\ UNCHANGED <<calVars, pc, err, wrapper, kisipPreSpeckleBatch,
                   kisipPreSpeckleStartInd, kisipPreSpeckleEndInd, despeckles, workBase,
                   environ>>

\* What a caller of kisip_despeckle_all_batches gets: the method has no return
\* statement and sets no attribute when it ends, so the value returned is None, and
\* the exception that ended it, if any.
FinalStatus == [returned |-> "None", raised |-> IF pc = "raised" THEN err ELSE ""]

\* batchList is exhausted: kisip_despeckle_all_batches returns.
DespeckleEnd ==
    /\ pc = "kisip_loop"
    /\ kpos > Len(batchList)
    /\ pc' = "idle"
    /\ UNCHANGED <<calVars, err, kisipVars>>

(***************************************************************************)
(* The burst batcher and the job orchestrator.                             *)
(***************************************************************************)
\* The data directories the model runs on.
ZylaData == {[k \in 1..n |-> 1] : n \in 1..MaxFrames}

RosaData == UNION {[1..n -> 0..MaxExt] : n \in 1..MaxRosaFiles}

\* A fresh rosaZylaCal instance, and no kisipWrapper.
FreshInstance ==
    /\ burstNumber = 0
    /\ dataList = <<0>>
    /\ batchList = <<>>
    /\ calls = <<>>
    /\ cubeLog = <<>>
    /\ pc = "idle"
    /\ err = ""

\* No sample frame has been looked at.
NoGeometry ==
    /\ imageData = <<>>
    /\ built = <<>>
    /\ dataShape = <<>>
    /\ imageShape = <<>>

\* No reference frame on disk or in memory.
NoReferences ==
    /\ darkList = <<>>
    /\ flatList = <<>>
    /\ listed = <<>>
    /\ darkBase = <<>>
    /\ flatBase = <<>>
    /\ fitsFiles = <<>>
    /\ avgDark = <<>>
    /\ avgFlat = <<>>
    /\ gain = <<>>
    /\ calLog = <<>>

NoKisip ==
    /\ wrapper = FALSE
    /\ kisipPreSpeckleBatch = 0
    /\ kisipPreSpeckleStartInd = 0
    /\ kisipPreSpeckleEndInd = 0
    /\ kpos = 0
    /\ kstep = 0
    /\ despeckles = 0
    /\ workBase = <<>>
    /\ environ = [PATH |-> <<"/usr/bin">>, LD_LIBRARY_PATH |-> <<"/usr/lib">>]
    /\ proc = "none"
    /\ returnCode = 0
    /\ kLog = <<>>
    /\ kTrace = <<>>
    /\ kHist = <<>>

Init ==
    /\ instrument \in {"ZYLA", "ROSA_GBAND"}
    /\ configFile \in [burstNumber : 1..MaxBurst, expTimems : {2}]
    /\ isdir = AllDirs
    /\ dataFiles \in (IF IsZyla THEN ZylaData ELSE RosaData)
    /\ preSpeckle = <<>>
    /\ FreshInstance
    /\ NoGeometry
    /\ NoReferences
    /\ NoKisip

Next ==
    \/ \E saveBursts \in BOOLEAN : rosa_zyla_run_calibration(saveBursts)
    \/ rosa_zyla_save_bursts
    \/ NewKisipWrapper
    \/ DespeckleAllBatches
    \/ kisip_set_batch_start_end_inds
    \/ kisip_set_environment
    \/ kisip_write_init_files
    \/ kisip_spawn_kisip
    \/ KisipExit
    \/ DespeckleEnd

Spec == Init /\ [][Next]_vars


(***************************************************************************)
(* Claims about the burst batcher and the job orchestrator.                *)
(***************************************************************************)
\* The data (sub-)frames in the order of the data list.
RECURSIVE FramesFrom(_)
FramesFrom(f) ==
    IF f > Len(dataFiles) THEN <<>>
    ELSE [e \in 1..dataFiles[f] |-> <<f, e>>] \o FramesFrom(f + 1)

AllFrames == FramesFrom(1)

\* How many of the invoked methods run rosa_zyla_save_bursts.
SaveBurstsCalls ==
    Cardinality({k \in 1..Len(calls) :
                    calls[k] # "rosa_zyla_run_calibration(saveBursts=False)"})

\* C1: once the first rosa_zyla_save_bursts on an instance has ended, over N data
\* (sub-)frames and burstNumber B, exactly N \div B cubes have been written, the k-th
\* of them named for burst index k-1, and none of the trailing N % B frames is in
\* a written cube.
C1_BurstTruncation ==
    SaveBurstsCalls = 1 =>
        LET n == Len(AllFrames) \div burstNumber
            trailing == {AllFrames[j] : j \in (n * burstNumber + 1)..Len(AllFrames)}
        IN /\ Len(cubeLog) = n
           /\ \A k \in 1..Len(cubeLog) :
                 /\ 1000 * BatchField(cubeLog[k].name) + BurstField(cubeLog[k].name) = k - 1
                 /\ \A slot \in 1..Len(preSpeckle[cubeLog[k].name].data) :
                       preSpeckle[cubeLog[k].name].data[slot] \notin trailing

\* C2: batchList holds each batch id once, in the order the batches were first
\* written.
C2_BatchListInvariant ==
    \A p \in 1..Len(batchList), q \in 1..Len(batchList) :
        p < q =>
            /\ batchList[p] # batchList[q]
            /\ LET FirstSeen(b) == CHOOSE k \in 1..Len(cubeLog) :
                       /\ BatchField(cubeLog[k].name) = b
                       /\ \A j \in 1..(k - 1) : BatchField(cubeLog[j].name) # b
               IN FirstSeen(batchList[p]) < FirstSeen(batchList[q])

\* The cubes of a batch in the preSpeckle directory.
CubesOfBatch(b) ==
    {name \in DOMAIN preSpeckle :
        preSpeckle[name].kind = "cube" /\ BatchField(name) = b}

DescriptorWritten(name) == \E k \in 1..Len(kTrace) : kTrace[k] = name

\* C3: once init_file.dat has been written for a batch of n >= 1 cubes, its start
\* index is 0 and its end index is n-1.
C3_DescriptorMatchesBatching ==
    (pc = "kisip_loop" /\ DescriptorWritten("init_file.dat")) =>
        LET n == Cardinality(CubesOfBatch(kisipPreSpeckleBatch))
            lines == workBase["init_file.dat"]
        IN n >= 1 => /\ ParseDec(lines[2]) = 0
                     /\ ParseDec(lines[3]) = n - 1

\* What the state machine of a batch sees of its history.
BatchEvents == SelectSeq(kTrace, LAMBDA e : e # "environment")

BatchOrder == <<"indices", "init_file.dat", "init_method.dat", "init_props.dat", "spawn">>

BatchEnds == {"exit zero", "exit nonzero", "spawn failed"}

\* C10: for the batch being processed, the indices are resolved, then the three
\* descriptor files are written, then the process is spawned, then it completes or
\* fails, nothing skipped or repeated; while the process runs, the descriptors on
\* disk are those of its batch with the indices resolved for it.
C10_BatchStateOrder ==
    /\ \/ IsPrefix(BatchEvents, BatchOrder)
       \/ \E e \in BatchEnds : BatchEvents = Append(BatchOrder, e)
    /\ proc = "running" =>
          /\ BatchEvents = BatchOrder
          /\ kisipPreSpeckleBatch = batchList[kpos]
          /\ \A k \in 1..Len(InitFileNames) : InitFileNames[k] \in DOMAIN workBase
          /\ workBase["init_file.dat"] =
                InitFileLines(batchList[kpos], 0, kisipPreSpeckleEndInd)

\* C10 witness: a batch has gone through every state and completed.
C10_Witness ==
    /\ BatchEvents = Append(BatchOrder, "exit zero")
    /\ proc = "exited"

\* How often event ev was recorded for the batch at index p.
TimesDone(p, ev) == Cardinality({i \in 1..Len(kHist) : kHist[i] = <<p, ev>>})

ExitEvents == {"exit zero", "exit nonzero"}

\* The processes spawned and not yet exited.
ProcessesRunning ==
    Cardinality({i \in 1..Len(kHist) : kHist[i][2] = "spawn"})
    - Cardinality({i \in 1..Len(kHist) : kHist[i][2] \in ExitEvents \cup {"spawn failed"}})

\* The loop of kisip_despeckle_all_batches has gone through all of batchList.
LoopExhausted == pc = "kisip_loop" /\ kpos > Len(batchList)

\* C11: at most one spawned process is running at any time, and nothing is done
\* while it runs; nothing is done for the batch at index p+1 of batchList before
\* the process of the batch at index p has exited; the batches are taken in
\* batchList order, and when the loop is through every entry of batchList has
\* been resolved once and spawned once.
C11_SequentialBatches ==
    /\ ProcessesRunning \in {0, 1}
    /\ ProcessesRunning = 1 <=> proc = "running"
    /\ proc = "running" => kHist[Len(kHist)][2] = "spawn"
    /\ \A i, j \in 1..Len(kHist) : i < j => kHist[i][1] <= kHist[j][1]
    /\ \A j \in 1..Len(kHist) :
          kHist[j][1] > 1 =>
              \E i \in 1..(j - 1) : /\ kHist[i][1] = kHist[j][1] - 1
                                    /\ kHist[i][2] \in ExitEvents
    /\ \A p \in 1..Len(batchList) :
          /\ TimesDone(p, "indices") <= 1
          /\ TimesDone(p, "spawn") <= 1
    /\ LoopExhausted =>
          \A p \in 1..Len(batchList) :
              /\ TimesDone(p, "indices") = 1
              /\ TimesDone(p, "spawn") = 1
              /\ \E i \in 1..Len(kHist) : kHist[i][1] = p /\ kHist[i][2] \in ExitEvents

\* C11 witness: the loop is through a batch list of two entries or more.
C11_Witness == LoopExhausted /\ Len(batchList) >= 2

\* The batch at index p of batchList was resolved, described and spawned.
Processed(p) ==
    /\ TimesDone(p, "indices") = 1
    /\ \A n \in 1..Len(InitFileNames) : TimesDone(p, InitFileNames[n]) = 1
    /\ TimesDone(p, "spawn") = 1

\* The step in which the process of the batch at index p is seen to exit non-zero.
ExitsNonZero(p) == kHist' = Append(kHist, <<p, "exit nonzero">>)

\* C12: the step in which a spawned process exits with a non-zero code logs the
\* code and raises nothing, the loop goes on to the next entry of batchList, and
\* kisip_despeckle_all_batches returns only when every entry of batchList was
\* resolved, described and spawned.
C12_SoftFailure ==
    [][(\A p \in 1..Len(batchList) :
           ExitsNonZero(p) =>
               /\ returnCode' # 0
               /\ kLog' = Append(kLog, <<"info", "exited with code", returnCode'>>)
               /\ pc' = "kisip_loop"
               /\ err' = ""
               /\ kpos' = p + 1
               /\ kstep' = 1)
       /\ ((pc = "kisip_loop" /\ pc' = "idle") =>
               \A p \in 1..Len(batchList) : Processed(p))]_vars

\* C12 witness: a batch was spawned after the process of the batch before it had
\* exited with a non-zero code.
C12_Witness ==
    \E i, j \in 1..Len(kHist) :
        /\ i < j
        /\ kHist[i][2] = "exit nonzero"
        /\ kHist[j] = <<kHist[i][1] + 1, "spawn">>
        /\ proc = "running"

\* The last thing recorded is that the process of a batch could not be started.
SpawnFailed == Len(kHist) > 0 /\ kHist[Len(kHist)][2] = "spawn failed"

\* C13: when spawning the process of a batch raises, the run is over, nothing is
\* done for a later batch, and the error the run ends with is the spawn error.
C13_FatalSpawnFailure ==
    SpawnFailed => /\ pc = "raised"
                   /\ proc = "none"
                   /\ err = SpawnError

\* kisip_despeckle_all_batches has returned.
DespeckleReturned ==
    /\ pc = "idle"
    /\ despeckles > 0
    /\ Len(kHist) > 0
    /\ kHist[Len(kHist)] \in {<<Len(batchList), ev>> : ev \in ExitEvents}

\* The process of at least one batch exited with a non-zero code.
Degraded == \E i \in 1..Len(kHist) : kHist[i][2] = "exit nonzero"

\* The final status of a run in which the process of every batch exited with zero.
CleanStatus == [returned |-> "None", raised |-> ""]

\* C14: a run in which every batch exited with zero ends with the clean status, and
\* a run in which the process of at least one batch exited with a non-zero code
\* ends with a status that differs from it.
C14_DegradedFinalStatus ==
    DespeckleReturned => IF Degraded THEN FinalStatus # CleanStatus
                         ELSE FinalStatus = CleanStatus

\* The step in which kisip_set_environment is called.
SetsEnvironment == kHist' = Append(kHist, <<kpos, "environment">>)

\* C15: kisip_set_environment puts the tool's binary directory in front of the
\* previous PATH and the tool's library directory in front of the previous
\* LD_LIBRARY_PATH, and both are in front when a process is running.
C15_SearchPathsPrepended ==
    /\ [][SetsEnvironment =>
             /\ environ'.PATH = <<"kisipEnvBin">> \o environ.PATH
             /\ environ'.LD_LIBRARY_PATH = <<"kisipEnvLib">> \o environ.LD_LIBRARY_PATH]_vars
    /\ [](proc = "running" => /\ Head(environ.PATH) = "kisipEnvBin"
                              /\ Head(environ.LD_LIBRARY_PATH) = "kisipEnvLib")

\* The method-parameters file has been written.
MethodFileWritten == "init_method.dat" \in DOMAIN workBase

\* C16 as stated: the method-parameters file holds eight lines: method selector,
\* subfield size, phase-reconstruction limit, apodization, iteration cap,
\* signal-to-noise threshold, weighting exponent, noise-filter flag.
C16_MethodWireOrderEight ==
    MethodFileWritten =>
        workBase["init_method.dat"] =
            <<"kisipMethodMethod", "kisipMethodSubfieldArcsec",
              "kisipMethodPhaseRecLimit", "kisipMethodPhaseRecApod",
              "kisipMethodMaxIter", "kisipMethodSNThresh", "kisipMethodWeightExp",
              "kisipMethodNoiseFilter">>

\* C16 amended: the method-parameters file holds ten lines: method selector,
\* subfield size, phase-reconstruction limit, UX, UV, iteration cap,
\* signal-to-noise threshold, weighting exponent, apodization, noise-filter flag.
C16_MethodWireOrder ==
    MethodFileWritten =>
        /\ Len(workBase["init_method.dat"]) = 10
        /\ workBase["init_method.dat"][1] = "kisipMethodMethod"
        /\ workBase["init_method.dat"][2] = "kisipMethodSubfieldArcsec"
        /\ workBase["init_method.dat"][3] = "kisipMethodPhaseRecLimit"
        /\ workBase["init_method.dat"][4] = "kisipMethodUX"
        /\ workBase["init_method.dat"][5] = "kisipMethodUV"
        /\ workBase["init_method.dat"][6] = "kisipMethodMaxIter"
        /\ workBase["init_method.dat"][7] = "kisipMethodSNThresh"
        /\ workBase["init_method.dat"][8] = "kisipMethodWeightExp"
        /\ workBase["init_method.dat"][9] = "kisipMethodPhaseRecApod"
        /\ workBase["init_method.dat"][10] = "kisipMethodNoiseFilter"

\* C16 witness: all three descriptor files of a batch have been written.
C16_Witness ==
    /\ MethodFileWritten
    /\ Len(kHist) > 0
    /\ kHist[Len(kHist)][2] = "init_props.dat"


(***************************************************************************)
(* The burst batcher over more than a batch of bursts.                     *)
(***************************************************************************)
LongData == {[k \in 1..(BatchSize + n) |-> 1] : n \in 0..MaxLongExtra}

\* A raw-buffer instance over an acquisition of a batch of frames or more, one
\* frame to the burst.
InitLong ==
    /\ instrument = "ZYLA"
    /\ configFile = [burstNumber |-> 1, expTimems |-> 2]
    /\ isdir = AllDirs
    /\ dataFiles \in LongData
    /\ preSpeckle = <<>>
    /\ FreshInstance
    /\ NoGeometry
    /\ NoReferences
    /\ NoKisip

SpecLong == InitLong /\ [][Next]_vars

\* The names of the cubes written by one invocation, in the order written.
RunLog(r) == SelectSeq(cubeLog, LAMBDA e : e.run = r)

\* C4: within a run the burst written n-th from 0 is named for batch n \div 1000 and
\* burst n % 1000 of that batch, which is in 0..999; no two bursts of the run share
\* a name, and no batch holds more than 1000 of them.
C4_BatchSizeBound ==
    \A r \in 1..Len(calls) :
        LET log == RunLog(r)
            batches == {BatchField(log[k].name) : k \in 1..Len(log)}
        IN /\ \A k \in 1..Len(log) :
                 LET b == BatchField(log[k].name)
                     w == BurstField(log[k].name)
                 IN /\ b = (k - 1) \div 1000
                    /\ w = (k - 1) % 1000
                    /\ w \in 0..999
                    /\ k - 1 = 1000 * b + w
           /\ Cardinality({log[k].name : k \in 1..Len(log)}) = Len(log)
           /\ \A b \in batches :
                 Cardinality({k \in 1..Len(log) : BatchField(log[k].name) = b}) <= 1000

\* C4 witness: a run has written a burst beyond its first 1000.
C4_Witness ==
    /\ pc = "idle"
    /\ \E k \in 1..Len(cubeLog) : BatchField(cubeLog[k].name) = 1

\* C28: for the structured-header family no sidecar is left without its record,
\* and the record of every cube written is that of the sub-frame which filled the
\* cube: the header index is the place of that sub-frame in the file open then.
C28_SidecarHeaderIndexValid ==
    IsRosa =>
        /\ err # "IndexError"
        /\ \A name \in DOMAIN preSpeckle :
              preSpeckle[name].kind = "txt" => preSpeckle[name].data # <<>>
        /\ \A k \in 1..Len(cubeLog) :
              LET cube == preSpeckle[cubeLog[k].name].data
                  record == preSpeckle[SidecarName(cubeLog[k].name)].data
              IN /\ record = cube[Len(cube)]
                 /\ record[2] \in 1..dataFiles[record[1]]

\* How often the tool's binary directory is in PATH.
TimesInPath == Cardinality({k \in 1..Len(environ.PATH) : environ.PATH[k] = "kisipEnvBin"})

\* C27: whichever batch a process is running for, PATH is its value before the
\* run with the tool's binary directory in front of it once.
C27_EnvironmentIdempotent ==
    proc = "running" =>
        /\ TimesInPath = 1
        /\ environ.PATH = <<"kisipEnvBin", "/usr/bin">>

MaxTimeExtra == 1    \* SpecTime: bursts beyond the first full batch

\* A raw-buffer instance over an acquisition of more than a batch of bursts, two
\* frames to the burst and three milliseconds to the frame.
InitTime ==
    /\ instrument = "ZYLA"
    /\ configFile = [burstNumber |-> 2, expTimems |-> 3]
    /\ isdir = AllDirs
    /\ dataFiles \in {[k \in 1..(2 * (BatchSize + n)) |-> 1] : n \in 0..MaxTimeExtra}
    /\ preSpeckle = <<>>
    /\ FreshInstance
    /\ NoGeometry
    /\ NoReferences
    /\ NoKisip

SpecTime == InitTime /\ [][Next]_vars

\* C21: the time in the sidecar of the burst a run wrote n-th from 0 is
\* burstNumber * expTimems * n milliseconds after the start of the run, for the
\* bursts of the first batch and for those of the batches after it.
C21_ReconstructedTimestamp ==
    \A r \in 1..Len(calls) :
        LET log == RunLog(r)
        IN \A k \in 1..Len(log) :
              LET sidecar == SidecarName(log[k].name)
              IN /\ sidecar \in DOMAIN preSpeckle
                 /\ preSpeckle[sidecar].kind = "txt"
                 /\ preSpeckle[sidecar].data =
                        <<configFile.burstNumber * configFile.expTimems * (k - 1)>>

\* C21 witness: a run has written the sidecar of a burst beyond its first 1000.
C21_Witness ==
    /\ pc = "idle"
    /\ configFile.burstNumber > 1
    /\ \E k \in 1..Len(cubeLog) :
          /\ BatchField(cubeLog[k].name) = 1
          /\ preSpeckle[SidecarName(cubeLog[k].name)].data[1] >=
                configFile.burstNumber * configFile.expTimems * BatchSize


(***************************************************************************)
(* The job orchestrator over a preSpeckle directory that other programs    *)
(* change.                                                                 *)
(***************************************************************************)
\* The files of the preSpeckle directory named for a batch.
FilesOfBatch(b) == {name \in DOMAIN preSpeckle : BatchField(name) = b}

\* Between two statements of the script the files of a batch are removed from the
\* preSpeckle directory by someone else.
PreSpeckleRemoved ==
    /\ pc = "idle"
    /\ \E b \in {batchList[k] : k \in 1..Len(batchList)} :
          /\ FilesOfBatch(b) # {}
          /\ preSpeckle' = [name \in DOMAIN preSpeckle \ FilesOfBatch(b) |->
                               preSpeckle[name]]
    /\ UNCHANGED <<configFile, isdir, dataFiles, instrument, burstNumber, dataList,
                   batchList, calls, cubeLog, geomVars, refVars, kisipVars, pc, err>>

NextDisk ==
    \/ Next
    \/ PreSpeckleRemoved

SpecDisk == Init /\ [][NextDisk]_vars

\* kisip_set_batch_start_end_inds is the step taken.
ResolvesIndices ==
    /\ pc = "kisip_loop"
    /\ kHist' = Append(kHist, <<kpos, "indices">>)

\* The last record of the orchestrator's log is an error.
ErrorLogged == kLog # <<>> /\ kLog[Len(kLog)][1] = "error"

\* The descriptors on disk were written for a batch no file was found for.
NoFileBatch ==
    /\ pc = "kisip_loop"
    /\ kisipPreSpeckleEndInd = -1
    /\ \E k \in 1..Len(kTrace) : kTrace[k] = "init_props.dat"

\* C24: kisip_set_batch_start_end_inds sets the start index to 0 and the end index
\* to the number of files named for the batch less one; when there is none the
\* end index is -1, an error is logged, nothing is raised and the loop body goes
\* on to write the descriptors, with that end index, and to spawn the process.
C24_IndexResolution ==
    /\ [][  ResolvesIndices =>
               LET n == Cardinality(FilesOfBatch(batchList[kpos]))
               IN /\ kisipPreSpeckleBatch' = batchList[kpos]
                  /\ kisipPreSpeckleStartInd' = 0
                  /\ kisipPreSpeckleEndInd' = n - 1
                  /\ pc' = "kisip_loop" /\ err' = err
                  /\ kpos' = kpos /\ BatchSteps[kstep'] = "kisip_set_environment"
                  /\ ErrorLogged' <=> (n = 0)
                  /\ (n = 0) => kisipPreSpeckleEndInd' = -1  ]_vars
    /\ [](  NoFileBatch =>
               /\ workBase["init_file.dat"][2] = <<"0", "0", "0">>
               /\ workBase["init_file.dat"][3] = <<"-", "0", "1">>
               /\ BatchSteps[kstep] = "kisip_spawn_kisip" \/ proc # "none"  )

\* C24 witness: the process of a batch no file was found for is running.
C24_Witness ==
    /\ NoFileBatch
    /\ proc = "running"
    /\ ErrorLogged


\* The batch the loop of kisip_despeckle_all_batches is at.
RunningBatch == batchList[kpos]

\* C29: while the process of a batch is running, init_file.dat names the input and
\* the output stem of that batch and holds the indices resolved for it: start 0
\* and the number of the batch's files less one.
C29_DescriptorsOfRunningBatch ==
    proc = "running" =>
        /\ kisipPreSpeckleBatch = RunningBatch
        /\ "init_file.dat" \in DOMAIN workBase
        /\ LET lines == workBase["init_file.dat"]
               stem == FormatD(RunningBatch, 2)
           IN /\ lines[1] = <<"preSpeckleBase/", "obsDate_obsTime.raw.batch.">> \o stem
              /\ lines[4] = <<"speckleBase/", "obsDate_obsTime.speckle.batch.">> \o stem
              /\ lines[2] = <<"0", "0", "0">>
              /\ lines[3] = FormatD(Cardinality(FilesOfBatch(RunningBatch)) - 1, 3)
              /\ lines[3] = FormatD(kisipPreSpeckleEndInd, 3)

\* C29 witness: the process of a second batch is running.
C29_Witness ==
    /\ proc = "running"
    /\ kpos = 2
    /\ batchList = <<0, 1>>


(***************************************************************************)
(* The burst batcher with the reference frames in memory.                  *)
(***************************************************************************)
\* The averaged dark and flat of an instance whose usable region is two pixels.
CubeDark == <<Frac(100, 1), Frac(104, 1)>>

CubeFlat == <<Frac(200, 1), Frac(220, 1)>>

\* An instance as rosa_zyla_get_cal_images leaves it, and its data files.
InitCube ==
    /\ instrument \in {"ZYLA", "ROSA_GBAND"}
    /\ configFile \in [burstNumber : 1..MaxBurst, expTimems : {2}]
    /\ isdir = AllDirs
    /\ dataFiles \in (IF IsZyla THEN ZylaData ELSE RosaData)
    /\ preSpeckle = <<>>
    /\ FreshInstance
    /\ imageData = <<>>
    /\ built = <<>>
    /\ dataShape = <<1, 2>>
    /\ imageShape = <<1, 2>>
    /\ darkList = <<>>
    /\ flatList = <<>>
    /\ listed = <<>>
    /\ darkBase = <<>>
    /\ flatBase = <<>>
    /\ fitsFiles = <<>>
    /\ avgDark = CubeDark
    /\ avgFlat = CubeFlat
    /\ gain = [p \in 1..2 |->
                 FracMul(Frac(108, 1),
                         Frac(CubeFlat[p].den * CubeDark[p].den,
                              CubeFlat[p].num * CubeDark[p].den
                                  - CubeDark[p].num * CubeFlat[p].den))]
    /\ calLog = <<>>
    /\ NoKisip

SpecCube == InitCube /\ [][Next]_vars

\* gain*(frame-avgDark) of a data (sub-)frame, a pixel at a time.
Corrected(frame) ==
    [p \in 1..Len(gain) |->
        LET pixel == 110 + 16 * frame[1] + 4 * frame[2] + p
        IN Frac(gain[p].num * (pixel * avgDark[p].den - avgDark[p].num),
                gain[p].den * avgDark[p].den)]

\* C23: slot s of the cube a run wrote b-th from 0 holds gain*(frame-avgDark) of
\* frame b*burstNumber+s of the data list, or of the sub-frames of its files; it
\* holds neither a frame of another burst nor the zeros of a slot never filled.
C23_CubeContents ==
    \A r \in 1..Len(calls) :
        LET log == RunLog(r)
        IN \A k \in 1..Len(log) :
              LET cube == preSpeckle[log[k].name]
              IN /\ cube.kind = "cube"
                 /\ Len(cube.data) = burstNumber
                 /\ k * burstNumber <= Len(AllFrames)
                 /\ \A s \in 1..burstNumber :
                       cube.data[s] = Corrected(AllFrames[(k - 1) * burstNumber + s])

\* C23 witness: a cube of more than one slot, not the first of its run, has been
\* written, and one whose frames come from two files.
C23_Witness ==
    /\ burstNumber >= 2
    /\ Len(cubeLog) >= 1
    /\ \/ IsZyla /\ Len(cubeLog) >= 2
       \/ IsRosa /\ AllFrames[1][1] # AllFrames[burstNumber][1]


(***************************************************************************)
(* Geometry detection on synthetic raw buffers.                            *)
(***************************************************************************)
MaxRows == 4         \* the sample frame has 1..MaxRows rows
MaxCols == 4         \* and 1..MaxCols columns

\* np.uint16(x) of a non-negative quotient: truncated, in 16 bits.
Uint16(x) == x % 65536

\* np.where(flags)[0]: the places, from 0, at which flags holds.
Where(flags) == SelectSeq([k \in 1..Len(flags) |-> k - 1], LAMBDA i : flags[i + 1])

\* np.abs(np.diff(a))
AbsDiff(a) == [k \in 1..(Len(a) - 1) |-> Abs(a[k + 1] - a[k])]

\* rosa_zyla_detect_overscan: where runs of zeros start and end.
rosa_zyla_detect_overscan(data) ==
    LET iszero == <<0>> \o [k \in 1..Len(data) |-> IF data[k] = 0 THEN 1 ELSE 0] \o <<0>>
        absdiff == AbsDiff(iszero)
    IN Where([k \in 1..Len(absdiff) |-> absdiff[k] = 1])

\* Mutation: the row stride is the first boundary.
RowStrideFirst(ovrScn) == ovrScn[1]

\* ovrScn[1], the second boundary
RowStride(ovrScn) == ovrScn[2]

\* What rosa_zyla_detect_zyla_dims computes from a sample frame: the shapes, or the
\* exception raised by an index that is not there.
DetectZylaDims(data) ==
    LET ovrScn == rosa_zyla_detect_overscan(data)
        dx1 == ovrScn[2] - ovrScn[1]
        dx2 == ovrScn[3] - ovrScn[2]
        DeltaX == AbsDiff(ovrScn)
        other == Where([k \in 1..Len(DeltaX) |-> DeltaX[k] # dx1 /\ DeltaX[k] # dx2])
        endRow == (other[1] \div 2) + 1
    IN IF Len(ovrScn) < 3 \/ other = <<>>
       THEN [err |-> "IndexError", dataShape |-> <<>>, imageShape |-> <<>>]
       ELSE [err |-> "",
             dataShape |-> <<Uint16(Len(data) \div RowStride(ovrScn)), RowStride(ovrScn)>>,
             imageShape |-> <<Uint16(endRow), ovrScn[1]>>]

\* r.rosa_zyla_detect_zyla_dims(imageData)
rosa_zyla_detect_zyla_dims ==
    /\ pc = "idle"
    /\ IsZyla
    /\ Len(calls) < MaxCalls
    /\ calls' = Append(calls, "rosa_zyla_detect_zyla_dims")
    /\ LET dims == DetectZylaDims(imageData)
       IN IF dims.err = ""
          THEN /\ dataShape' = dims.dataShape
               /\ imageShape' = dims.imageShape
               /\ UNCHANGED <<pc, err>>
          ELSE /\ pc' = "raised"
               /\ err' = dims.err
               /\ UNCHANGED <<dataShape, imageShape>>
    /\ UNCHANGED <<configFile, isdir, dataFiles, instrument, burstNumber, dataList, batchList,
                   preSpeckle, cubeLog, imageData, built, refVars, kisipVars>>

\* A raw buffer laid out row by row from a data shape and an image shape: non-zero
\* samples in the usable region, zeros in the padding.
SyntheticBuffer(shapes) ==
    LET W == shapes.dataShape[2]
    IN [p \in 1..(shapes.dataShape[1] * W) |->
           IF (p - 1) \div W < shapes.imageShape[1] /\ (p - 1) % W < shapes.imageShape[2]
           THEN 1 + (p % 2)
           ELSE 0]

Layouts ==
    {[dataShape |-> <<D, W>>, imageShape |-> <<R, C>>] :
        D \in 1..MaxRows, W \in 1..MaxCols, R \in 1..MaxRows, C \in 1..MaxCols}

InitGeom ==
    /\ instrument = "ZYLA"
    /\ configFile = [burstNumber |-> 1, expTimems |-> 2]
    /\ isdir = AllDirs
    /\ dataFiles = <<>>
    /\ preSpeckle = <<>>
    /\ FreshInstance
    /\ built \in {l \in Layouts : /\ l.imageShape[1] <= l.dataShape[1]
                                  /\ l.imageShape[2] <= l.dataShape[2]}
    /\ imageData = SyntheticBuffer(built)
    /\ dataShape = <<>>
    /\ imageShape = <<>>
    /\ NoReferences
    /\ NoKisip

NextGeom == rosa_zyla_detect_zyla_dims

SpecGeom == InitGeom /\ [][NextGeom]_vars

DetectionCalled == calls # <<>> /\ calls[Len(calls)] = "rosa_zyla_detect_zyla_dims"

\* C5 as stated, read for the buffers that have padding at all: whatever shapes
\* the buffer was laid out from, detection sets dataShape and imageShape to them.
C5_AnyLayoutRecovered ==
    (DetectionCalled /\ built.imageShape # built.dataShape)
        => dataShape = built.dataShape /\ imageShape = built.imageShape

\* C5: for a buffer laid out from (D, W) and (R, C) that has padding in both
\* directions and two usable rows or more (2 <= R < D, C < W), detection sets
\* dataShape to (D, W) and imageShape to (R, C), raising nothing.
C5_GeometryRecovery ==
    (/\ DetectionCalled
     /\ 2 <= built.imageShape[1]
     /\ built.imageShape[1] < built.dataShape[1]
     /\ built.imageShape[2] < built.dataShape[2])
        => /\ pc = "idle"
           /\ dataShape = built.dataShape
           /\ imageShape = built.imageShape

\* C5 witness: detection has recovered the shapes of a padded buffer whose usable
\* region is neither one row nor one column.
C5_Witness ==
    /\ DetectionCalled
    /\ pc = "idle"
    /\ built.imageShape[1] >= 2
    /\ built.imageShape[2] >= 2
    /\ dataShape = built.dataShape
    /\ imageShape = built.imageShape

\* Detection has set the shapes from the sample frame.
DetectionCompleted == DetectionCalled /\ pc = "idle"

\* The n-th boundary, from 1, detected in the sample frame.
Boundary(n) == rosa_zyla_detect_overscan(imageData)[n]

\* C25 as stated: detection sets dataShape[1] to the first boundary index and
\* dataShape[0] to the sample count divided by it.
C25_RowStrideFirstBoundary ==
    DetectionCompleted =>
        /\ dataShape[2] = Boundary(1)
        /\ dataShape[1] = Len(imageData) \div Boundary(1)

\* C25: detection sets dataShape[1] to the second boundary index, where the first
\* run of zeros ends, and dataShape[0] to the sample count divided by it, as a
\* whole number of 16 bits.
C25_RowStrideSecondBoundary ==
    DetectionCompleted =>
        /\ dataShape[2] = Boundary(2)
        /\ dataShape[1] = Uint16(Len(imageData) \div Boundary(2))

\* C25 witness: detection has set the row stride of a frame of more than one row
\* whose usable region is wider than a column.
C25_Witness ==
    /\ DetectionCompleted
    /\ Boundary(1) > 1
    /\ Boundary(2) > Boundary(1)
    /\ dataShape[1] > 1


(***************************************************************************)
(* Geometry detection on any sample frame.                                 *)
(***************************************************************************)
MaxSamples == 12     \* a sample frame holds 0..MaxSamples samples

\* The sample frames: a sample is zero or it is not.
Frames == UNION {[1..n -> {0, 1}] : n \in 0..MaxSamples}

\* The headers: each of the two axis keywords is there, with a length, or not.
Headers == UNION {[keys -> 1..2] : keys \in SUBSET {"NAXIS1", "NAXIS2"}}

\* r.rosa_zyla_detect_rosa_dims(header): a keyword that is not there is logged and
\* the shapes are left as they were.
rosa_zyla_detect_rosa_dims ==
    /\ pc = "idle"
    /\ IsRosa
    /\ Len(calls) < MaxCalls
    /\ calls' = Append(calls, "rosa_zyla_detect_rosa_dims")
    /\ \E header \in Headers :
          IF DOMAIN header = {"NAXIS1", "NAXIS2"}
          THEN /\ dataShape' = <<header["NAXIS2"], header["NAXIS1"]>>
               /\ imageShape' = <<header["NAXIS2"], header["NAXIS1"]>>
          ELSE UNCHANGED <<dataShape, imageShape>>
    /\ UNCHANGED <<configFile, isdir, dataFiles, instrument, burstNumber, dataList, batchList,
                   preSpeckle, cubeLog, imageData, built, refVars, kisipVars, pc, err>>

InitFrame ==
    /\ instrument \in {"ZYLA", "ROSA_GBAND"}
    /\ configFile = [burstNumber |-> 1, expTimems |-> 2]
    /\ isdir = AllDirs
    /\ dataFiles = <<>>
    /\ preSpeckle = <<>>
    /\ FreshInstance
    /\ built = <<>>
    /\ imageData \in (IF IsZyla THEN Frames ELSE {<<>>})
    /\ dataShape = <<>>
    /\ imageShape = <<>>
    /\ NoReferences
    /\ NoKisip

NextFrame ==
    \/ rosa_zyla_detect_zyla_dims
    \/ rosa_zyla_detect_rosa_dims

SpecFrame == InitFrame /\ [][NextFrame]_vars

\* C22: once a detection has completed without raising, the usable region is no
\* larger than the frame in either direction.
C22_GeometryInvariant ==
    (calls # <<>> /\ pc = "idle" /\ dataShape # <<>>) =>
        \A axis \in 1..2 : imageShape[axis] <= dataShape[axis]


(***************************************************************************)
(* Ordering of the file lists (rosa_zyla_order_files).                     *)
(***************************************************************************)
MaxOrder == 3        \* the data list holds 0..MaxOrder names
OrderWidth == 2      \* digits of the run counter in a file name

\* The code points of the characters file names are made of here.
Ord(c) ==
    CASE c = "/" -> 47
      [] c \in {DigitChars[d] : d \in 1..10} -> 48 + CharVal(c)
      [] c = "d" -> 100
      [] c = "s" -> 115
      [] c = "t" -> 116

\* a < b for strings
RECURSIVE StrLess(_, _)
StrLess(a, b) ==
    IF b = <<>> THEN FALSE
    ELSE IF a = <<>> THEN TRUE
    ELSE IF Head(a) # Head(b) THEN Ord(Head(a)) < Ord(Head(b))
    ELSE StrLess(Tail(a), Tail(b))

\* fList.sort()
RECURSIVE Sorted(_)
Sorted(fList) ==
    IF fList = <<>> THEN <<>>
    ELSE LET least == CHOOSE k \in 1..Len(fList) :
                          \A j \in 1..Len(fList) : ~StrLess(fList[j], fList[k])
         IN <<fList[least]>> \o
            Sorted([k \in 1..(Len(fList) - 1) |->
                       IF k < least THEN fList[k] ELSE fList[k + 1]])

\* head, tail=os.path.split(f): what follows the last slash
RECURSIVE PathTail(_)
PathTail(f) ==
    IF f = <<>> \/ f[Len(f)] = "/" THEN <<>>
    ELSE Append(PathTail(SubSeq(f, 1, Len(f) - 1)), f[Len(f)])

IsDigit(c) == \E d \in 1..10 : DigitChars[d] = c

\* re.compile('[0-9]+').match(tail).group(): the digits tail starts with, <<>> for
\* no match
RECURSIVE LeadingDigits(_)
LeadingDigits(tail) ==
    IF tail = <<>> \/ ~IsDigit(Head(tail)) THEN <<>>
    ELSE <<Head(tail)>> \o LeadingDigits(Tail(tail))

\* Mutation: the digits are taken as they stand.
DigitNewAsWritten(match) == match

\* match.group()[::-1]
DigitNew(match) == [k \in 1..Len(match) |-> match[Len(match) + 1 - k]]

\* The loop `for f in fList` from its k-th name on: orderList as it is left, or the
\* IndexError of a place beyond the list.
RECURSIVE PlaceFrom(_, _, _)
PlaceFrom(fList, k, orderList) ==
    IF k > Len(fList) THEN [err |-> "", list |-> orderList]
    ELSE LET match == LeadingDigits(PathTail(fList[k]))
             place == ParseDec(DigitNew(match))
         IN IF match = <<>> THEN PlaceFrom(fList, k + 1, orderList)
            ELSE IF place >= Len(fList) THEN [err |-> "IndexError", list |-> orderList]
            ELSE PlaceFrom(fList, k + 1, [orderList EXCEPT ![place + 1] = fList[k]])

\* rosa_zyla_order_file_list(fList): the list returned, or the exception raised.
rosa_zyla_order_file_list(fList) ==
    LET placed == IF IsZyla THEN PlaceFrom(fList, 1, [k \in 1..Len(fList) |-> <<>>])
                  ELSE [err |-> "", list |-> Sorted(fList)]
    IN IF placed.err # "" THEN [err |-> placed.err, list |-> fList]
       ELSE IF \E k \in 1..Len(placed.list) : placed.list[k] = <<>>
       THEN [err |-> "AssertionError", list |-> fList]
       ELSE placed

\* r.rosa_zyla_order_files()
rosa_zyla_order_files ==
    /\ AtCall("rosa_zyla_order_files")
    /\ calls' = Append(calls, "rosa_zyla_order_files")
    /\ LET dark == rosa_zyla_order_file_list(darkList)
           flat == rosa_zyla_order_file_list(flatList)
           data == rosa_zyla_order_file_list(dataList)
       IN /\ darkList' = dark.list
          /\ flatList' = IF dark.err = "" THEN flat.list ELSE flatList
          /\ dataList' = IF dark.err = "" /\ flat.err = "" THEN data.list ELSE dataList
          /\ err' = IF dark.err # "" THEN dark.err
                    ELSE IF flat.err # "" THEN flat.err
                    ELSE data.err
          /\ pc' = IF err' = "" THEN Return("rosa_zyla_order_files") ELSE "raised"
    /\ UNCHANGED <<configFile, isdir, dataFiles, instrument, burstNumber, batchList, preSpeckle,
                   cubeLog, geomVars, listed, darkBase, flatBase, fitsFiles, avgDark,
                   avgFlat, gain, calLog, kisipVars>>

\* The run counter n as a Zyla file name carries it: OrderWidth digits, the least
\* significant first.
RECURSIVE LsdFirst(_, _)
LsdFirst(n, w) ==
    IF w = 0 THEN <<>> ELSE <<DigitChars[(n % 10) + 1]>> \o LsdFirst(n \div 10, w - 1)

\* The file names of the model: one for each run counter 0..MaxOrder, a second file
\* for run counter 0, and a name that does not start with digits.
FileNames ==
    {<<"d", "/">> \o LsdFirst(n, OrderWidth) \o <<"s">> : n \in 0..MaxOrder}
        \cup {<<"d", "/">> \o LsdFirst(0, OrderWidth) \o <<"t">>,
              <<"d", "/", "s">> \o LsdFirst(0, OrderWidth)}

\* The lists of at most n names, no name twice, in any order (glob.glob).
Listings(n) ==
    {l \in UNION {[1..m -> FileNames] : m \in 0..n} :
        \A j \in 1..Len(l), k \in 1..Len(l) : j # k => l[j] # l[k]}

InitOrder ==
    /\ instrument \in {"ZYLA", "ROSA_GBAND"}
    /\ configFile = [burstNumber |-> 1, expTimems |-> 2]
    /\ isdir = AllDirs
    /\ dataFiles = <<>>
    /\ preSpeckle = <<>>
    /\ burstNumber = configFile.burstNumber
    /\ batchList = <<>>
    /\ calls = <<>>
    /\ cubeLog = <<>>
    /\ pc = "idle"
    /\ err = ""
    /\ NoGeometry
    /\ darkList \in Listings(1)
    /\ flatList \in Listings(1)
    /\ dataList \in Listings(MaxOrder)
    /\ listed = [dark |-> darkList, flat |-> flatList, data |-> dataList]
    /\ darkBase = <<>>
    /\ flatBase = <<>>
    /\ fitsFiles = <<>>
    /\ avgDark = <<>>
    /\ avgFlat = <<>>
    /\ gain = <<>>
    /\ calLog = <<>>
    /\ NoKisip

NextOrder == rosa_zyla_order_files

SpecOrder == InitOrder /\ [][NextOrder]_vars

\* The number a string of digits stands for when its first digit is the least
\* significant.
RECURSIVE LsdValue(_)
LsdValue(digits) ==
    IF digits = <<>> THEN 0 ELSE CharVal(Head(digits)) + 10 * LsdValue(Tail(digits))

\* The file name starts with a numeric token.
HasToken(name) == PathTail(name) # <<>> /\ IsDigit(Head(PathTail(name)))

\* The index a file name encodes.
EncodedIndex(name) == LsdValue(LeadingDigits(PathTail(name)))

\* The names of the list encode exactly the indices 0..N-1.
EncodesIndices(list) ==
    /\ \A k \in 1..Len(list) : HasToken(list[k])
    /\ {EncodedIndex(list[k]) : k \in 1..Len(list)} = 0..(Len(list) - 1)

\* The lists in the order rosa_zyla_order_files takes them, as listed and as they are.
ListedLists == <<listed.dark, listed.flat, listed.data>>

OrderedLists == <<darkList, flatList, dataList>>

\* C6: for the raw-buffer family, once rosa_zyla_order_files has been called, a
\* list it got to whose names encode exactly 0..N-1 is the same names with the one
\* encoding k at position k, and a list it got to that has a name without a leading
\* numeric token makes it raise and is not replaced; it returns when all three
\* lists encode their indices.
C6_OrderingBijection ==
    (calls # <<>> /\ IsZyla) =>
        /\ \A r \in 1..3 :
              (\A q \in 1..(r - 1) : EncodesIndices(ListedLists[q])) =>
                 /\ EncodesIndices(ListedLists[r]) =>
                       /\ Len(OrderedLists[r]) = Len(ListedLists[r])
                       /\ \A k \in 1..Len(OrderedLists[r]) :
                             /\ \E j \in 1..Len(ListedLists[r]) :
                                   OrderedLists[r][k] = ListedLists[r][j]
                             /\ EncodedIndex(OrderedLists[r][k]) = k - 1
                 /\ (\E k \in 1..Len(ListedLists[r]) : ~HasToken(ListedLists[r][k])) =>
                       /\ pc = "raised"
                       /\ err \in {"AssertionError", "IndexError"}
                       /\ OrderedLists[r] = ListedLists[r]
        /\ (\A r \in 1..3 : EncodesIndices(ListedLists[r])) => pc = "idle"

\* C6 witness: a data list of three names that was not in index order has been
\* put in order.
C6_Witness ==
    /\ calls # <<>>
    /\ IsZyla
    /\ pc = "idle"
    /\ Len(dataList) >= 3
    /\ dataList # listed.data
    /\ \A k \in 1..Len(dataList) : EncodedIndex(dataList[k]) = k - 1


(***************************************************************************)
(* Reference frames: averaging, gain, caching.  Floating-point values are   *)
(* exact fractions [num, den] in lowest terms; den = 0 stands for inf       *)
(* (num = 1), -inf (num = -1) and nan (num = 0).  Rounding to 32 bits is    *)
(* not modelled.                                                            *)
(***************************************************************************)
MaxCalFiles == 2     \* the dark list holds 0..MaxCalFiles files, the flat list 0..1
MaxCalExt == 2       \* a structured dark or flat file holds 0..MaxCalExt sub-frames
MaxCalCols == 3      \* the usable region is one row of 2..MaxCalCols pixels

\* a/b as numpy divides: x/0 is inf, -inf or nan, and nothing is raised.
FracDiv(a, b) ==
    IF IsNan(a) \/ IsNan(b) THEN Frac(0, 0)
    ELSE Frac(a.num * b.den, a.den * b.num)

\* a < b for finite a and b
FracLess(a, b) == a.num * b.den < b.num * a.den

\* np.sort of finite values
RECURSIVE FracSorted(_)
FracSorted(a) ==
    IF a = <<>> THEN <<>>
    ELSE LET least == CHOOSE k \in 1..Len(a) : \A j \in 1..Len(a) : ~FracLess(a[j], a[k])
         IN <<a[least]>> \o
            FracSorted([k \in 1..(Len(a) - 1) |-> IF k < least THEN a[k] ELSE a[k + 1]])

\* The sum of finite values.
RECURSIVE FracSum(_)
FracSum(a) ==
    IF a = <<>> THEN Frac(0, 1)
    ELSE LET rest == FracSum(Tail(a))
         IN Frac(Head(a).num * rest.den + rest.num * Head(a).den, Head(a).den * rest.den)

\* Mutation: the mean of the array is taken for its median.
FracMean(a) ==
    IF \E k \in 1..Len(a) : IsNan(a[k]) THEN Frac(0, 0)
    ELSE LET total == FracSum(a) IN Frac(total.num, total.den * Len(a))

\* np.median(a): nan if a holds one, else the middle of the sorted values, the
\* mean of the two middle ones for an even count.
Median(a) ==
    IF \E k \in 1..Len(a) : IsNan(a[k]) THEN Frac(0, 0)
    ELSE LET sorted == FracSorted(a)
             n == Len(a)
             lo == sorted[(n + 1) \div 2]
             hi == sorted[(n \div 2) + 1]
         IN Frac(lo.num * hi.den + hi.num * lo.den, 2 * lo.den * hi.den)

\* np.median(darkSubtracted)/(darkSubtracted), with darkSubtracted=avgFlat-avgDark
ComputeGain(flat, dark) ==
    LET darkSubtracted == [p \in 1..Len(flat) |-> FracSub(flat[p], dark[p])]
        median == Median(darkSubtracted)
    IN [p \in 1..Len(flat) |-> FracDiv(median, darkSubtracted[p])]

\* rosa_zyla_read_binary_image(file): imageData.reshape(dataShape) cut to imageShape,
\* or the ValueError of a buffer that does not fill dataShape.
ReadBinaryImage(buffer, dShape, iShape) ==
    IF Len(buffer) # dShape[1] * dShape[2] THEN [err |-> "ValueError", image |-> <<>>]
    ELSE [err |-> "",
          image |-> [p \in 1..(iShape[1] * iShape[2]) |->
                        buffer[((p - 1) \div iShape[2]) * dShape[2]
                               + ((p - 1) % iShape[2]) + 1]]]

\* The frames the loop of rosa_zyla_average_image_from_list adds to avgIm from the
\* k-th file of the list on: the cut image of each raw buffer, hdu[1:] of each
\* structured file.
RECURSIVE FramesAdded(_, _, _, _, _)
FramesAdded(fileList, base, k, dShape, iShape) ==
    IF k > Len(fileList) THEN [err |-> "", frames |-> <<>>]
    ELSE LET rest == FramesAdded(fileList, base, k + 1, dShape, iShape)
             read == ReadBinaryImage(base[fileList[k]], dShape, iShape)
         IN IF IsZyla /\ read.err # "" THEN [err |-> read.err, frames |-> <<>>]
            ELSE IF rest.err # "" THEN rest
            ELSE [err |-> "",
                  frames |-> (IF IsZyla THEN <<read.image>> ELSE Tail(base[fileList[k]]))
                                 \o rest.frames]

\* Mutation: the sum is divided by the number of images predicted.
DivisorPredicted(fNum, numImg) == numImg

\* avgIm=avgIm/fNum
Divisor(fNum, numImg) == fNum

\* rosa_zyla_average_image_from_list(fileList): the average, or the exception raised.
rosa_zyla_average_image_from_list(fileList, base, dShape, iShape) ==
    LET added == FramesAdded(fileList, base, 1, dShape, iShape)
        fNum == Len(added.frames)
        numImg == IF IsZyla THEN Len(fileList)
                  ELSE Len(fileList) * Len(Tail(base[fileList[1]]))
        pixels == iShape[1] * iShape[2]
        Total[n \in 0..fNum] ==
            IF n = 0 THEN [p \in 1..pixels |-> 0]
            ELSE [p \in 1..pixels |-> Total[n - 1][p] + added.frames[n][p]]
    IN IF fileList = <<>> THEN [err |-> "IndexError", image |-> <<>>]
       ELSE IF added.err # "" THEN [err |-> added.err, image |-> <<>>]
       ELSE [err |-> "",
             image |-> [p \in 1..pixels |-> Frac(Total[fNum][p], Divisor(fNum, numImg))]]

\* os.path.join(a, b)
OsPathJoin(a, b) ==
    IF b # <<>> /\ b[1] = "/" THEN b
    ELSE IF a = <<>> \/ a[Len(a)] = "/" THEN a \o b
    ELSE a \o <<"/">> \o b

\* The paths set by rosa_zyla_configure_run.
darkFile == OsPathJoin(configFile.workBase, <<instrument, "_dark.fits">>)

flatFile == OsPathJoin(configFile.workBase, <<instrument, "_flat.fits">>)

gainFile == OsPathJoin(configFile.workBase, <<instrument, "_gain.fits">>)

noiseFileFits == OsPathJoin(configFile.workBase, <<instrument, "_noise.fits">>)

\* os.path.exists(path), for the FITS files of the work directory
Exists(path) == path \in DOMAIN fitsFiles

\* Mutation: the gain file is used only when dark and flat were read from theirs.
GainFileFoundWithAll == Exists(darkFile) /\ Exists(flatFile) /\ Exists(gainFile)

\* if os.path.exists(self.gainFile)
GainFileFound == Exists(gainFile)

\* What rosa_zyla_compute_gain logs when it divides: the division of numpy arrays
\* raises nothing where the divisor is zero, so the except clause is not entered.
ComputeGainLog ==
    << <<"info", "Computing gain table.">>, <<"info", "Gain table computed.">> >>

\* What rosa_zyla_get_cal_images logs when it reads the gain file.
GainFileLog == << <<"info", "Gain file found">>, <<"info", "Reading gain file.">> >>

\* r.rosa_zyla_get_cal_images()
rosa_zyla_get_cal_images ==
    /\ AtCall("rosa_zyla_get_cal_images")
    /\ calls' = Append(calls, "rosa_zyla_get_cal_images")
    /\ LET dark == IF Exists(darkFile) THEN [err |-> "", image |-> fitsFiles[darkFile]]
                   ELSE rosa_zyla_average_image_from_list(darkList, darkBase,
                                                          dataShape, imageShape)
           flat == IF Exists(flatFile) THEN [err |-> "", image |-> fitsFiles[flatFile]]
                   ELSE rosa_zyla_average_image_from_list(flatList, flatBase,
                                                          dataShape, imageShape)
       IN IF dark.err # ""
          THEN /\ pc' = "raised"
               /\ err' = dark.err
               /\ UNCHANGED <<avgDark, avgFlat, gain, calLog>>
          ELSE IF flat.err # ""
          THEN /\ avgDark' = dark.image
               /\ pc' = "raised"
               /\ err' = flat.err
               /\ UNCHANGED <<avgFlat, gain, calLog>>
          ELSE /\ avgDark' = dark.image
               /\ avgFlat' = flat.image
               /\ gain' = IF GainFileFound THEN fitsFiles[gainFile]
                          ELSE ComputeGain(flat.image, dark.image)
               /\ calLog' = calLog \o (IF GainFileFound THEN GainFileLog
                                       ELSE ComputeGainLog)
               /\ pc' = Return("rosa_zyla_get_cal_images")
               /\ UNCHANGED err
    /\ UNCHANGED <<configFile, isdir, dataFiles, instrument, burstNumber, dataList, batchList,
                   preSpeckle, cubeLog, geomVars, darkList, flatList, listed, darkBase,
                   flatBase, fitsFiles, kisipVars>>

\* r.rosa_zyla_compute_gain(); avgFlat-avgDark of an instance without them is None-None.
rosa_zyla_compute_gain ==
    /\ pc = "idle"
    /\ Len(calls) < MaxCalls
    /\ calls' = Append(calls, "rosa_zyla_compute_gain")
    /\ IF avgFlat = <<>> \/ avgDark = <<>>
       THEN /\ pc' = "raised"
            /\ err' = "TypeError"
            /\ calLog' = Append(calLog, Head(ComputeGainLog))
            /\ UNCHANGED gain
       ELSE /\ gain' = ComputeGain(avgFlat, avgDark)
            /\ calLog' = calLog \o ComputeGainLog
            /\ UNCHANGED <<pc, err>>
    /\ UNCHANGED <<configFile, isdir, dataFiles, instrument, burstNumber, dataList, batchList,
                   preSpeckle, cubeLog, geomVars, darkList, flatList, listed, darkBase,
                   flatBase, fitsFiles, avgDark, avgFlat, kisipVars>>

\* rosa_zyla_save_fits_image(image, os.path.join(self.workBase, file)) unless file
\* exists; a write that fails is logged and nothing is raised.
SaveUnlessFound(files, file, image, writable) ==
    IF file \in DOMAIN files \/ ~writable THEN files
    ELSE WriteFile(files, OsPathJoin(configFile.workBase, file), image)

\* r.rosa_zyla_save_cal_images(); self.noise is None.
rosa_zyla_save_cal_images ==
    /\ AtCall("rosa_zyla_save_cal_images")
    /\ calls' = Append(calls, "rosa_zyla_save_cal_images")
    /\ \E writable \in BOOLEAN :
          fitsFiles' =
              SaveUnlessFound(
                  SaveUnlessFound(
                      SaveUnlessFound(
                          SaveUnlessFound(fitsFiles, darkFile, avgDark, writable),
                          flatFile, avgFlat, writable),
                      gainFile, gain, writable),
                  noiseFileFits, <<>>, writable)
    /\ UNCHANGED <<configFile, isdir, dataFiles, instrument, burstNumber, dataList, batchList,
                   preSpeckle, cubeLog, geomVars, darkList, flatList, listed, darkBase,
                   flatBase, avgDark, avgFlat, gain, calLog, kisipVars, err>>
    /\ pc' = Return("rosa_zyla_save_cal_images")

\* The frames the model draws dark and flat files from, over n pixels: variant 0
\* is constant, and the first pixel of a flat of variant 1 is that of the darks.
DarkImage(variant, n) ==
    [p \in 1..n |-> IF variant = 0 THEN 100
                    ELSE 100 + 4 * ((p - 1) % 3) - 8 * ((p - 1) \div 3)]

FlatImage(variant, n) ==
    [p \in 1..n |-> IF variant = 0 THEN 200 ELSE IF p = 1 THEN 100 ELSE 200 + 10 * p]

\* An image as the raw buffer of shape dShape that holds it, zeros in the padding.
RawBuffer(image, dShape, iShape) ==
    [q \in 1..(dShape[1] * dShape[2]) |->
        IF (q - 1) \div dShape[2] < iShape[1] /\ (q - 1) % dShape[2] < iShape[2]
        THEN image[((q - 1) \div dShape[2]) * iShape[2] + ((q - 1) % dShape[2]) + 1]
        ELSE 0]

\* A directory of dark or of flat files for an instrument: counts[k] frames in
\* the k-th file (one for a raw buffer), all of variant 0 or of alternating
\* variants starting with variant 1; a structured file starts with its primary
\* record, which holds no image.
FrameFiles(dark, zyla, counts, alternate, dShape, iShape) ==
    LET n == iShape[1] * iShape[2]
        Image(variant) == IF dark THEN DarkImage(variant, n) ELSE FlatImage(variant, n)
    IN [k \in 1..Len(counts) |->
           IF zyla
           THEN RawBuffer(Image(IF alternate THEN k % 2 ELSE 0), dShape, iShape)
           ELSE <<<<>>>> \o [e \in 1..counts[k] |->
                               Image(IF alternate THEN (k + e + 1) % 2 ELSE 0)]]

\* The frames per file of a directory of at most n files.
FrameCounts(zyla, n) ==
    UNION {[1..m -> (IF zyla THEN {1} ELSE 0..MaxCalExt)] : m \in 0..n}

\* Reference images left in the work directory by an earlier run.
CachedImage(file, n) ==
    [p \in 1..n |-> IF file = gainFile THEN Frac(1, 1)
                    ELSE IF file = flatFile THEN Frac(190 + p, 1)
                    ELSE Frac(90, 1)]

\* A configured instance whose lists are ordered and whose geometry is detected.
InitCal ==
    /\ instrument \in {"ZYLA", "ROSA_GBAND"}
    /\ configFile = [burstNumber |-> 1, expTimems |-> 2, workBase |-> <<"/", "work">>]
    /\ isdir = AllDirs
    /\ dataFiles = <<>>
    /\ preSpeckle = <<>>
    /\ burstNumber = configFile.burstNumber
    /\ dataList = <<>>
    /\ batchList = <<>>
    /\ calls = <<>>
    /\ cubeLog = <<>>
    /\ pc = "idle"
    /\ err = ""
    /\ imageData = <<>>
    /\ built = <<>>
    /\ \E cols \in 2..MaxCalCols :
          /\ imageShape = <<1, cols>>
          /\ dataShape = IF IsZyla THEN <<2, cols + 1>> ELSE <<1, cols>>
    /\ \E alternate \in BOOLEAN :
          /\ \E counts \in FrameCounts(IsZyla, MaxCalFiles) :
                darkBase = FrameFiles(TRUE, IsZyla, counts, alternate,
                                      dataShape, imageShape)
          /\ \E counts \in FrameCounts(IsZyla, 1) :
                flatBase = FrameFiles(FALSE, IsZyla, counts, alternate,
                                      dataShape, imageShape)
    /\ darkList = [k \in 1..Len(darkBase) |-> k]
    /\ flatList = [k \in 1..Len(flatBase) |-> k]
    /\ listed = [dark |-> darkList, flat |-> flatList, data |-> dataList]
    /\ \E found \in SUBSET {darkFile, flatFile, gainFile} :
          fitsFiles = [file \in found |-> CachedImage(file, imageShape[1] * imageShape[2])]
    /\ avgDark = <<>>
    /\ avgFlat = <<>>
    /\ gain = <<>>
    /\ calLog = <<>>
    /\ NoKisip

NextCal ==
    \/ rosa_zyla_get_cal_images
    \/ rosa_zyla_compute_gain
    \/ rosa_zyla_save_cal_images

SpecCal == InitCal /\ [][NextCal]_vars

LastCall == IF calls = <<>> THEN "" ELSE calls[Len(calls)]

\* The number of frames held by the k-th file of a list: one for a raw buffer,
\* the records after the primary one for a structured file.
FramesIn(base, list, k) == IF IsZyla THEN 1 ELSE Len(base[list[k]]) - 1

\* Pixel p of frame e of the k-th file of a list.
PixelOf(base, list, k, e, p) ==
    IF IsZyla
    THEN base[list[k]][((p - 1) \div imageShape[2]) * dataShape[2]
                       + ((p - 1) % imageShape[2]) + 1]
    ELSE base[list[k]][e + 1][p]

\* The number of frames of the files k..Len(list), and the sum of their pixel p.
RECURSIVE FrameCount(_, _, _)
FrameCount(base, list, k) ==
    IF k > Len(list) THEN 0
    ELSE FramesIn(base, list, k) + FrameCount(base, list, k + 1)

RECURSIVE PixelSum(_, _, _, _, _)
PixelSum(base, list, k, e, p) ==
    IF k > Len(list) THEN 0
    ELSE IF e > FramesIn(base, list, k) THEN PixelSum(base, list, k + 1, 1, p)
    ELSE PixelOf(base, list, k, e, p) + PixelSum(base, list, k, e + 1, p)

\* avg is, pixel by pixel, the sum over the frames of the list divided by their
\* number.
IsAverageOf(avg, base, list) ==
    /\ Len(avg) = imageShape[1] * imageShape[2]
    /\ \A p \in 1..Len(avg) :
          /\ avg[p].den > 0
          /\ avg[p].num * FrameCount(base, list, 1) = avg[p].den * PixelSum(base, list, 1, 1, p)

\* C7: once rosa_zyla_get_cal_images has averaged a list that holds a frame (its
\* cache file was not there), the average is at every pixel the sum of that pixel
\* over all frames, every sub-frame of every structured file among them, divided
\* by the number of frames.
C7_AveragingExact ==
    LastCall = "rosa_zyla_get_cal_images" =>
        /\ (~Exists(darkFile) /\ FrameCount(darkBase, darkList, 1) >= 1)
              => IsAverageOf(avgDark, darkBase, darkList)
        /\ (/\ ~Exists(flatFile)
            /\ FrameCount(flatBase, flatList, 1) >= 1
            /\ (Exists(darkFile) \/ darkList # <<>>))
              => IsAverageOf(avgFlat, flatBase, flatList)

\* C7 witness: three constant dark frames of 100 in two structured files, of two
\* sub-frames and of one, have been averaged to 100 at every pixel.
C7_Witness ==
    /\ LastCall = "rosa_zyla_get_cal_images"
    /\ IsRosa
    /\ ~Exists(darkFile)
    /\ Len(darkList) = 2
    /\ FramesIn(darkBase, darkList, 1) = 2
    /\ FramesIn(darkBase, darkList, 2) = 1
    /\ \A k \in 1..2, p \in 1..Len(avgDark) :
          \A e \in 1..FramesIn(darkBase, darkList, k) :
              PixelOf(darkBase, darkList, k, e, p) = 100
    /\ avgDark # <<>>
    /\ \A p \in 1..Len(avgDark) : avgDark[p] = [num |-> 100, den |-> 1]

\* The difference avgFlat-avgDark at pixel p.
DarkSubtracted(p) == FracSub(avgFlat[p], avgDark[p])

\* x is the r-th smallest of the values of X: fewer than r are below it and at
\* least r are not above it.
HasRank(x, r, X) ==
    /\ Cardinality({k \in 1..Len(X) : FracLess(X[k], x)}) < r
    /\ r <= Cardinality({k \in 1..Len(X) : ~FracLess(x, X[k])})

\* The last call computed the gain table.
GainComputed ==
    /\ pc = "idle"
    /\ \/ LastCall = "rosa_zyla_compute_gain"
       \/ LastCall = "rosa_zyla_get_cal_images" /\ ~Exists(gainFile)

\* C8: once the gain table has been computed from finite reference frames, at
\* every pixel whose difference avgFlat-avgDark is not zero the gain times that
\* difference is the median of all the differences: half the sum of the two middle
\* ones, which are one and the same for an odd count.
C8_GainTable ==
    (GainComputed /\ \A p \in 1..Len(avgFlat) : DarkSubtracted(p).den > 0) =>
        LET diff == [p \in 1..Len(avgFlat) |-> DarkSubtracted(p)]
            n == Len(diff)
        IN /\ Len(gain) = n
           /\ \E i \in 1..n, j \in 1..n :
                 /\ HasRank(diff[i], (n + 1) \div 2, diff)
                 /\ HasRank(diff[j], (n \div 2) + 1, diff)
                 /\ \A p \in 1..n :
                       diff[p].num # 0 =>
                          /\ gain[p].den > 0
                          /\ Frac(gain[p].num * diff[p].num, gain[p].den * diff[p].den)
                                = Frac(diff[i].num * diff[j].den + diff[j].num * diff[i].den,
                                       2 * diff[i].den * diff[j].den)

\* C8 witness: a gain table has been computed from differences that are not all
\* the same, one of them zero.
C8_Witness ==
    /\ GainComputed
    /\ \A p \in 1..Len(avgFlat) : DarkSubtracted(p).den > 0
    /\ \E p \in 1..Len(gain), q \in 1..Len(gain) :
          /\ DarkSubtracted(p).num = 0
          /\ DarkSubtracted(q).num # 0
          /\ gain[q] # [num |-> 1, den |-> 1]
          /\ gain[q].den > 0

\* The last call divided by avgFlat-avgDark.
GainDivided ==
    /\ avgFlat # <<>>
    /\ avgDark # <<>>
    /\ \/ LastCall = "rosa_zyla_compute_gain"
       \/ LastCall = "rosa_zyla_get_cal_images" /\ ~Exists(gainFile) /\ pc = "idle"

\* At least one element of avgFlat-avgDark is exactly zero.
ZeroDifference ==
    \E p \in 1..Len(avgFlat) : DarkSubtracted(p).num = 0 /\ DarkSubtracted(p).den > 0

\* C17: when the gain table has been computed from a difference avgFlat-avgDark
\* with an element that is exactly zero, nothing was raised, the gain table is held
\* (with a value that is not finite at that element), and the log holds a record of
\* the error.
C17_ZeroDivisionLogged ==
    (GainDivided /\ ZeroDifference) =>
        /\ pc = "idle"
        /\ err = ""
        /\ Len(gain) = Len(avgFlat)
        /\ \E k \in 1..Len(calLog) : calLog[k][1] \in {"warning", "error", "critical"}

\* C9: when rosa_zyla_get_cal_images returns, each of avgDark, avgFlat and gain is
\* the image of its own cache file if that file exists, whatever the other two
\* files, and is otherwise computed: the averages from their lists, the gain from
\* the avgFlat and avgDark now held.
C9_IndependentCaching ==
    (LastCall = "rosa_zyla_get_cal_images" /\ pc = "idle") =>
        /\ avgDark = IF Exists(darkFile) THEN fitsFiles[darkFile]
                     ELSE rosa_zyla_average_image_from_list(darkList, darkBase,
                                                            dataShape, imageShape).image
        /\ avgFlat = IF Exists(flatFile) THEN fitsFiles[flatFile]
                     ELSE rosa_zyla_average_image_from_list(flatList, flatBase,
                                                            dataShape, imageShape).image
        /\ gain = IF Exists(gainFile) THEN fitsFiles[gainFile]
                  ELSE ComputeGain(avgFlat, avgDark)

\* C9 witness: dark and flat were averaged, and the gain was read from a gain file
\* that is not what they give.
C9_Witness ==
    /\ LastCall = "rosa_zyla_get_cal_images"
    /\ pc = "idle"
    /\ ~Exists(darkFile)
    /\ ~Exists(flatFile)
    /\ Exists(gainFile)
    /\ gain = fitsFiles[gainFile]
    /\ gain # ComputeGain(avgFlat, avgDark)


(***************************************************************************)
(* Reference frames under an absolute and under a relative workBase.       *)
(***************************************************************************)
\* The settings of workBase: an absolute path and a relative one.
WorkBases == {<<"/", "work">>, <<"work">>}

\* A configured instance whose lists are ordered and whose geometry is detected,
\* with a dark and a flat file of one frame each.
InitPath ==
    /\ instrument \in {"ZYLA", "ROSA_GBAND"}
    /\ configFile \in [burstNumber : {1}, expTimems : {2}, workBase : WorkBases]
    /\ isdir = AllDirs
    /\ dataFiles = <<>>
    /\ preSpeckle = <<>>
    /\ burstNumber = configFile.burstNumber
    /\ dataList = <<>>
    /\ batchList = <<>>
    /\ calls = <<>>
    /\ cubeLog = <<>>
    /\ pc = "idle"
    /\ err = ""
    /\ imageData = <<>>
    /\ built = <<>>
    /\ imageShape = <<1, 2>>
    /\ dataShape = IF IsZyla THEN <<2, 3>> ELSE <<1, 2>>
    /\ \E alternate \in BOOLEAN :
          /\ darkBase = FrameFiles(TRUE, IsZyla, <<1>>, alternate, dataShape, imageShape)
          /\ flatBase = FrameFiles(FALSE, IsZyla, <<1>>, alternate, dataShape, imageShape)
    /\ darkList = <<1>>
    /\ flatList = <<1>>
    /\ listed = [dark |-> darkList, flat |-> flatList, data |-> dataList]
    /\ \E found \in SUBSET {darkFile, flatFile, gainFile} :
          fitsFiles = [file \in found |-> CachedImage(file, imageShape[1] * imageShape[2])]
    /\ avgDark = <<>>
    /\ avgFlat = <<>>
    /\ gain = <<>>
    /\ calLog = <<>>
    /\ NoKisip

SpecPath == InitPath /\ [][NextCal]_vars

\* The paths whose existence rosa_zyla_get_cal_images and rosa_zyla_save_cal_images
\* test.
PathsTested == {darkFile, flatFile, gainFile, noiseFileFits}

\* rosa_zyla_save_cal_images is the step taken.
SavesCalImages == calls' = Append(calls, "rosa_zyla_save_cal_images")

\* C26: a path rosa_zyla_save_cal_images writes a reference image to is a path whose
\* existence is tested, whether workBase is absolute or relative, so that what one
\* run saved the next run finds.
C26_CachePathConsistency ==
    [][SavesCalImages => (DOMAIN fitsFiles' \ DOMAIN fitsFiles) \subseteq PathsTested]_vars


(***************************************************************************)
(* The standard script: rosa_zyla_run_calibration call by call, then the   *)
(* despeckling of the batches.                                             *)
(***************************************************************************)
MaxRunFiles == 2     \* a base directory holds 0..MaxRunFiles files

\* Mutation: only the dark directory is asserted.
BaseDirsExistDarkOnly == isdir.dark

\* rosa_zyla_assert_base_dirs of darkBase, dataBase and flatBase
BaseDirsExist == isdir.dark /\ isdir.data /\ isdir.flat

\* r.rosa_zyla_configure_run()
rosa_zyla_configure_run ==
    /\ AtCall("rosa_zyla_configure_run")
    /\ calls' = Append(calls, "rosa_zyla_configure_run")
    /\ burstNumber' = configFile.burstNumber
    /\ IF BaseDirsExist
       THEN pc' = Return("rosa_zyla_configure_run") /\ UNCHANGED err
       ELSE pc' = "raised" /\ err' = "AssertionError"
    /\ UNCHANGED <<configFile, isdir, dataFiles, instrument, dataList, batchList,
                   preSpeckle, cubeLog, geomVars, refVars, kisipVars>>

\* glob.glob(os.path.join(base, pattern)): the files of a directory, in any order
Orderings(files) ==
    {l \in [1..Cardinality(files) -> files] :
        \A j, k \in 1..Cardinality(files) : j # k => l[j] # l[k]}

\* Mutation: a list is accepted whatever its length.
rosa_zyla_assert_file_list_any(fList) == TRUE

\* assert(len(fList)!=0)
rosa_zyla_assert_file_list(fList) == Len(fList) # 0

\* r.rosa_zyla_get_file_lists(): the dark, the data and the flat list in turn, each
\* asserted before the next is globbed.
rosa_zyla_get_file_lists ==
    /\ AtCall("rosa_zyla_get_file_lists")
    /\ calls' = Append(calls, "rosa_zyla_get_file_lists")
    /\ \E dark \in Orderings(DOMAIN darkBase), data \in Orderings(DOMAIN dataFiles),
          flat \in Orderings(DOMAIN flatBase) :
          LET darkOk == rosa_zyla_assert_file_list(dark)
              dataOk == darkOk /\ rosa_zyla_assert_file_list(data)
              flatOk == dataOk /\ rosa_zyla_assert_file_list(flat)
          IN /\ darkList' = dark
             /\ dataList' = IF darkOk THEN data ELSE dataList
             /\ flatList' = IF dataOk THEN flat ELSE flatList
             /\ listed' = [dark |-> darkList', flat |-> flatList', data |-> dataList']
             /\ IF flatOk
                THEN pc' = Return("rosa_zyla_get_file_lists") /\ UNCHANGED err
                ELSE pc' = "raised" /\ err' = "AssertionError"
    /\ UNCHANGED <<configFile, isdir, dataFiles, instrument, burstNumber, batchList,
                   preSpeckle, cubeLog, geomVars, darkBase, flatBase, fitsFiles, avgDark,
                   avgFlat, gain, calLog, kisipVars>>

\* r.rosa_zyla_get_data_image_shapes(self.flatList[0]): the shapes detected in the
\* raw buffer of the first flat file, or read from the header of its first
\* extension (hdu[1]), which gives one shape for both.
rosa_zyla_get_data_image_shapes ==
    /\ AtCall("rosa_zyla_get_data_image_shapes")
    /\ calls' = Append(calls, "rosa_zyla_get_data_image_shapes")
    /\ LET none == [err |-> "IndexError", dataShape |-> <<>>, imageShape |-> <<>>]
           dims == IF flatList = <<>> THEN none
                   ELSE IF IsZyla THEN DetectZylaDims(flatBase[flatList[1]])
                   ELSE IF Len(flatBase[flatList[1]]) < 2 THEN none
                   ELSE [err |-> "", dataShape |-> built.imageShape,
                         imageShape |-> built.imageShape]
       IN /\ imageData' = IF IsZyla /\ flatList # <<>> THEN flatBase[flatList[1]]
                          ELSE imageData
          /\ IF dims.err = ""
             THEN /\ dataShape' = dims.dataShape
                  /\ imageShape' = dims.imageShape
                  /\ pc' = Return("rosa_zyla_get_data_image_shapes")
                  /\ UNCHANGED err
             ELSE /\ pc' = "raised"
                  /\ err' = dims.err
                  /\ UNCHANGED <<dataShape, imageShape>>
    /\ UNCHANGED <<configFile, isdir, dataFiles, instrument, burstNumber, dataList,
                   batchList, preSpeckle, cubeLog, built, refVars, kisipVars>>

\* The name of the k-th file of a base directory: its run counter is k - 1.
RunName(k) == <<"d", "/">> \o LsdFirst(k - 1, OrderWidth) \o <<"s">>

\* A base directory: its files by name, none if the directory is not there.
Directory(there, files) ==
    IF ~there THEN <<>>
    ELSE [name \in {RunName(k) : k \in 1..Len(files)} |->
             files[CHOOSE k \in 1..Len(files) : RunName(k) = name]]

\* The shapes the frames of a run are laid out from.
RunLayout ==
    IF IsZyla THEN [dataShape |-> <<3, 3>>, imageShape |-> <<2, 2>>]
    ELSE [dataShape |-> <<1, 2>>, imageShape |-> <<1, 2>>]

\* The script has constructed the instance and is about to call
\* rosa_zyla_run_calibration(); each base directory is there or not, and holds
\* 0..MaxRunFiles files of one frame each.
InitRun ==
    /\ instrument \in {"ZYLA", "ROSA_GBAND"}
    /\ configFile = [burstNumber |-> 1, expTimems |-> 2, workBase |-> <<"/", "work">>]
    /\ isdir \in [{"dark", "data", "flat"} -> BOOLEAN]
    /\ built = RunLayout
    /\ \E nDark \in 0..MaxRunFiles, nData \in 0..MaxRunFiles, nFlat \in 0..MaxRunFiles :
          /\ darkBase = Directory(isdir.dark,
                                  FrameFiles(TRUE, IsZyla, [k \in 1..nDark |-> 1], FALSE,
                                             built.dataShape, built.imageShape))
          /\ dataFiles = Directory(isdir.data, [k \in 1..nData |-> 1])
          /\ flatBase = Directory(isdir.flat,
                                  FrameFiles(FALSE, IsZyla, [k \in 1..nFlat |-> 1], FALSE,
                                             built.dataShape, built.imageShape))
    /\ \E cached \in BOOLEAN :
          fitsFiles = [file \in (IF cached THEN {darkFile, flatFile, gainFile} ELSE {}) |->
                          CachedImage(file, built.imageShape[1] * built.imageShape[2])]
    /\ preSpeckle = <<>>
    /\ burstNumber = 0
    /\ dataList = <<>>
    /\ batchList = <<>>
    /\ calls = <<>>
    /\ cubeLog = <<>>
    /\ pc = "rosa_zyla_configure_run"
    /\ err = ""
    /\ imageData = <<>>
    /\ dataShape = <<>>
    /\ imageShape = <<>>
    /\ darkList = <<>>
    /\ flatList = <<>>
    /\ listed = <<>>
    /\ avgDark = <<>>
    /\ avgFlat = <<>>
    /\ gain = <<>>
    /\ calLog = <<>>
    /\ NoKisip

NextRun ==
    \/ rosa_zyla_configure_run
    \/ rosa_zyla_get_file_lists
    \/ rosa_zyla_order_files
    \/ rosa_zyla_get_data_image_shapes
    \/ rosa_zyla_get_cal_images
    \/ rosa_zyla_save_cal_images
    \/ rosa_zyla_save_bursts
    \/ NewKisipWrapper
    \/ DespeckleAllBatches
    \/ kisip_set_batch_start_end_inds
    \/ kisip_set_environment
    \/ kisip_write_init_files
    \/ kisip_spawn_kisip
    \/ KisipExit
    \/ DespeckleEnd

SpecRun == InitRun /\ [][NextRun]_vars

(***************************************************************************)
(* Claims about the run of the standard script.                            *)
(***************************************************************************)
\* One of the three base directories is not there.
MissingDirectory == \E role \in {"dark", "data", "flat"} : ~isdir[role]

\* Nothing has been listed, ordered, detected, averaged, cached or written.
NothingProcessed ==
    /\ listed = <<>> /\ darkList = <<>> /\ dataList = <<>> /\ flatList = <<>>
    /\ imageData = <<>> /\ dataShape = <<>> /\ imageShape = <<>>
    /\ avgDark = <<>> /\ avgFlat = <<>> /\ gain = <<>>
    /\ preSpeckle = <<>> /\ cubeLog = <<>> /\ batchList = <<>>
    /\ ~wrapper /\ kHist = <<>>

\* C19: when one of the dark, data and flat base directories does not exist,
\* rosa_zyla_configure_run raises a fatal error and the run is over with that call:
\* no file is listed or ordered, no geometry detected, no average taken and no
\* burst written.
C19_MissingDirectoryFatal ==
    (MissingDirectory /\ calls # <<>>) =>
        /\ pc = "raised"
        /\ err = "AssertionError"
        /\ calls = <<"rosa_zyla_configure_run">>
        /\ NothingProcessed

C19_Witness ==
    /\ isdir.dark /\ ~isdir.flat
    /\ calls = <<"rosa_zyla_configure_run">>
    /\ pc = "raised"

\* The three directories are there and the pattern of one role matches no file.
EmptyDiscovery ==
    /\ ~MissingDirectory
    /\ DOMAIN darkBase = {} \/ DOMAIN dataFiles = {} \/ DOMAIN flatBase = {}

\* Nothing after the listing of the files has been done.
NothingAfterDiscovery ==
    /\ imageData = <<>> /\ dataShape = <<>> /\ imageShape = <<>>
    /\ avgDark = <<>> /\ avgFlat = <<>> /\ gain = <<>>
    /\ preSpeckle = <<>> /\ cubeLog = <<>> /\ batchList = <<>>
    /\ ~wrapper /\ kHist = <<>>

\* C18: when the pattern of the dark, the data or the flat role matches no file,
\* rosa_zyla_get_file_lists raises a fatal error and the run is over with that call,
\* before any ordering, geometry detection, averaging, cache write or burst
\* write; when it returns instead, the three lists are non-empty.
C18_EmptyDiscoveryFatal ==
    /\ [](  (EmptyDiscovery /\ Len(calls) >= 2) =>
               /\ pc = "raised"
               /\ err = "AssertionError"
               /\ calls = <<"rosa_zyla_configure_run", "rosa_zyla_get_file_lists">>
               /\ NothingAfterDiscovery  )
    /\ [][  (pc = "rosa_zyla_get_file_lists" /\ pc' # "raised") =>
               (darkList' # <<>> /\ dataList' # <<>> /\ flatList' # <<>>)  ]_vars

C18_Witness ==
    /\ ~MissingDirectory
    /\ DOMAIN darkBase # {} /\ DOMAIN dataFiles = {}
    /\ calls = <<"rosa_zyla_configure_run", "rosa_zyla_get_file_lists">>
    /\ pc = "raised"

\* The order in which the stages of a run are called.
StageOrder ==
    <<"rosa_zyla_configure_run", "rosa_zyla_get_file_lists", "rosa_zyla_order_files",
      "rosa_zyla_get_data_image_shapes", "rosa_zyla_get_cal_images",
      "rosa_zyla_save_cal_images", "rosa_zyla_save_bursts">>

Called(name) == \E k \in 1..Len(calls) : calls[k] = name

\* A reconstruction process has been spawned.
Spawned == \E k \in 1..Len(kHist) : kHist[k][2] = "spawn"

\* C20: in a run of the standard script the file lists are discovered and ordered
\* before the geometry is detected, the geometry is detected before a reference
\* frame is computed or loaded, the three reference frames are there before the
\* first burst cube is written, and every burst cube is written before the first
\* reconstruction process is spawned.
C20_PipelineStageOrder ==
    /\ [](  /\ Len(calls) <= Len(StageOrder)
            /\ calls = SubSeq(StageOrder, 1, Len(calls))
            /\ (dataShape # <<>> \/ imageShape # <<>>) =>
                   (listed # <<>> /\ Called("rosa_zyla_order_files"))
            /\ (avgDark # <<>> \/ avgFlat # <<>> \/ gain # <<>>) =>
                   (dataShape # <<>> /\ imageShape # <<>>)
            /\ (cubeLog # <<>> \/ preSpeckle # <<>>) =>
                   (avgDark # <<>> /\ avgFlat # <<>> /\ gain # <<>>)
            /\ (wrapper \/ kHist # <<>>) =>
                   (Called("rosa_zyla_save_bursts") /\ pc \notin {StageOrder[k] : k \in 1..7})  )
    /\ [][  (Spawned \/ Spawned') => (cubeLog' = cubeLog /\ preSpeckle' = preSpeckle)  ]_vars

C20_Witness ==
    /\ Spawned
    /\ cubeLog # <<>>
    /\ calls = StageOrder


(***************************************************************************)
(* The script over a preSpeckle directory that holds the bursts of an      *)
(* earlier run.                                                            *)
(***************************************************************************)
\* The preSpeckle directory as an earlier run left it: empty, or with the cube
\* and the sidecar of burst 0 of batch 0.
EarlierBursts ==
    {<<>>,
     WriteFile(WriteFile(<<>>, SidecarName(burstFileForm(0, 0)),
                         [kind |-> "txt", data |-> <<0>>]),
               burstFileForm(0, 0), [kind |-> "cube", data |-> ZeroCube(1)])}

InitStale ==
    /\ instrument \in {"ZYLA", "ROSA_GBAND"}
    /\ configFile \in [burstNumber : 1..MaxBurst, expTimems : {2}]
    /\ isdir = AllDirs
    /\ dataFiles \in (IF IsZyla THEN ZylaData ELSE RosaData)
    /\ preSpeckle \in EarlierBursts
    /\ FreshInstance
    /\ NoGeometry
    /\ NoReferences
    /\ NoKisip

SpecStale == InitStale /\ [][Next]_vars

\* The bursts of the instance were never saved: every call made on it is
\* rosa_zyla_run_calibration(saveBursts=False).
NeverSaved ==
    \A k \in 1..Len(calls) : calls[k] = "rosa_zyla_run_calibration(saveBursts=False)"

\* C30: batchList is empty on a fresh instance and grows only in a call that runs
\* rosa_zyla_save_bursts; on an instance calibrated with saveBursts=False it is
\* empty, and a kisipWrapper built from it spawns no process in
\* kisip_despeckle_all_batches, whatever bursts the preSpeckle directory holds.
C30_BatchListOnlyFromBursts ==
    /\ [](  NeverSaved =>
               /\ batchList = <<>>
               /\ ~Spawned
               /\ proc = "none"
               /\ kHist = <<>>  )
    /\ [][  batchList' # batchList =>
               \E call \in {"rosa_zyla_run_calibration", "rosa_zyla_save_bursts"} :
                   calls' = Append(calls, call)  ]_vars

\* C30 witness: kisip_despeckle_all_batches has returned on an instance calibrated
\* with saveBursts=False over a directory that holds bursts.
C30_Witness ==
    /\ calls = <<"rosa_zyla_run_calibration(saveBursts=False)">>
    /\ preSpeckle # <<>>
    /\ wrapper
    /\ despeckles = 1
    /\ pc = "idle"
    /\ kHist = <<>>

====
